---- MODULE Spec2Model ----
(***************************************************************************)
(* Model of the resilient fetch subsystem of goreilly:                     *)
(*   - the retrying HTTP transport (package client),                       *)
(*   - the multi-step login flow (package oreilly, Service.Login),         *)
(*   - the atomic streaming downloader (Service.DownloadEPUB/DownloadPDF)  *)
(*     and its progress reporting,                                         *)
(*   - the backoff computation of the two retry policies,                  *)
(*   - the session store (package auth) and the configuration it saves.    *)
(* Each subsystem has its own specification (SpecTransport, SpecLogin,     *)
(* SpecDownload, SpecProgress, SpecBackoff, SpecAuth, SpecSession), and so *)
(* has each model of concurrent callers (SpecConcurrent, SpecTui,          *)
(* SpecRace) and of a single call (SpecCsrf, SpecVerify), over the one set *)
(* of variables declared below.                                            *)
(***************************************************************************)
EXTENDS Integers, Sequences, FiniteSets, TLC

VARIABLES
    \* ---- transport (one execute call of one Client) ----
    impl,          \* which execute routine runs: "do" or "doWithRetry"
    policy,        \* c.retryPolicy: [MaxRetries, Codes]
    req,           \* the request handed to the execute routine
    tpc,           \* position inside the execute routine
    attempt,       \* loop variable attempt
    resp,          \* local resp (status of the last response, NilResp if nil)
    err,           \* local err (last error of client.Do)
    tres,          \* what the routine returned: [resp, err]
    outcomes,      \* history: outcome of every client.Do made by the call
    sent,          \* history: every HTTP request that reached the network
    ctxCancelled,  \* the caller's context has been cancelled
    admitted,      \* history: successful c.rateLimiter.Wait calls of the call
    bodyOff,       \* bytes of the request body already read from req.Body
    offered,       \* history: the body req.Body held at the start of every client.Do
    cancelledAt,   \* history: where the call was when its context was cancelled
    openBodies,    \* history: response bodies received by the call and not closed
    \* ---- login (Service.Login) ----
    lpc,           \* position inside Login
    jar,           \* orm-jwt cookie held by the cookie jar, per URL scope
    postBody,      \* body of the credential-submission response
    postRead,      \* history: the body io.ReadAll returned for that response
    lres,          \* what Login returned: [token, err]
    \* ---- download (Service.DownloadEPUB / DownloadPDF) ----
    dpc,           \* position inside the running download function
    fn,            \* function currently executing: "epub" or "pdf"
    entry,         \* function the caller invoked
    args,          \* [jwt, slug, destPath] as passed by the caller
    dest,          \* destPath of the function currently executing
    dirExists,     \* the destination directory exists
    dirExists0,    \* history: the destination directory existed when the call began
    fs,            \* files of the destination directory: path -> content
    fs0,           \* fs as it was when the call started
    dresp,         \* response being streamed
    rpos,          \* bytes of the body already returned by Body.Read
    tmp,           \* name of the temp file created by the running function
    tmpOpen,       \* the temp file handle is open
    pending,       \* error the running function is returning with
    dres,          \* what the entry function returned
    dreq,          \* history: every request issued, with the status it got
    fault,         \* history: first local I/O fault injected during the call
    progress,      \* the ProgressFn argument: "nil" or "fn"
    sinceEmit,     \* time.Since(lastEmit) in ticks, saturating at MaxGap
    emitted,       \* history: every invocation of the progress callback
    \* ---- backoff (the delay computed between two attempts) ----
    bimpl,         \* "CalculateBackoff" (RetryPolicy) or "calculateBackoff" (Client)
    bpolicy,       \* the retry policy: [Initial, Max], durations in ticks of 100 ms
    battempt,      \* attempt index the next call is made with
    bprev,         \* result of the call made with attempt index battempt - 2
    blast,         \* result of the call made with attempt index battempt - 1
    \* ---- session store (package auth) ----
    now,           \* the wall clock, in ticks of half an hour
    tokenFile,     \* content of the session file token.json
    ares,          \* result of the last operation of the auth service
    tokenMode,     \* permission bits of token.json, NoMode while it does not exist
    cfg,           \* s.config, the configuration held in memory: [username, password]
    configFile,    \* content of config.yaml
    \* ---- concurrent downloads to one destination path ----
    writers,       \* per concurrent call: [pc, readErrAt, pos, name, handle, res]
    names,         \* directory of the destination: name -> file id, NoFileId if free
    inodes,        \* file id -> bytes the file holds
    renames,       \* history: the calls whose os.Rename succeeded, in order
    \* ---- the login screen (package tui, App) ----
    ui,            \* fields of App: [current, activeInput, username, password, ufocus, pfocus, err, isLoading, quit]
    inflight,      \* Authenticate calls started by handleAuth that have not returned
    lastKey,       \* history: the key of the last tea.KeyMsg that Update handled
    search,        \* searchInput: [text, focus]
    \* ---- concurrent callers of one Client ----
    callers,       \* per caller: [op, pc, attempt]
    client,        \* fields of the shared Client: [headers, policy]
    \* ---- single calls of the token extractors and of the verification probe ----
    fcall,         \* the call: [fn, input]
    fret           \* what it returned: [token, err]

hvars == <<admitted, bodyOff, offered, cancelledAt, openBodies>>
tvars == <<impl, policy, req, tpc, attempt, resp, err, tres, outcomes, sent, ctxCancelled, hvars>>
lvars == <<lpc, jar, postBody, postRead, lres>>
pvars == <<progress, sinceEmit, emitted>>
dvars == <<dpc, fn, entry, args, dest, dirExists, dirExists0, fs, fs0, dresp, rpos, tmp,
           tmpOpen, pending, dres, dreq, fault, pvars>>
bvars == <<bimpl, bpolicy, battempt, bprev, blast>>
\* the variables of the components other than transport, login and download
svars == <<tokenMode, cfg, configFile>>
avars == <<now, tokenFile, ares, svars>>
cvars == <<writers, names, inodes, renames>>
uvars == <<ui, inflight, lastKey, search>>
rvars == <<callers, client>>
\* the variables of the models of concurrent callers
fvars == <<fcall, fret>>
xvars == <<cvars, uvars, rvars, fvars>>
\* the variables of the models of one sequential call
seqvars == <<tvars, lvars, dvars, bvars, avars, fvars>>
ovars == <<bvars, avars, xvars>>
vars == <<tvars, lvars, dvars, ovars>>

----------------------------------------------------------------------------
(* Bounds of the model *)

\* largest MaxRetries a custom retry policy is given
MaxRetriesBound == 2

\* longest response body a download streams
MaxBody == 3

\* length of the copy buffer (stands for the 32 KiB of the code)
BufLen == 2

\* longest time between two reads the clock of the copy loop tells apart, in
\* ticks of 250 ms
MaxGap == 2

\* width of time.Duration in the model, in bits (64 in the code)
DurationBits == 8

\* largest attempt index a backoff is computed for
MaxAttempt == 8

\* resolution of rand.Float64(): its values are the multiples of 1/JitterDen
JitterDen == 4

\* most cookies a cookie file holds
MaxCookies == 2

\* last tick of the wall clock
MaxClock == 4

\* number of concurrent downloads to one destination path
NumWriters == 3

\* most Authenticate calls the login screen is followed through
MaxLogins == 2

\* number of concurrent callers of one Client
NumCallers == 2

\* the longest text typed into the search input
MaxQuery == 2

----------------------------------------------------------------------------
(* Transport: package client *)

NilResp == 0
NoErr == [kind |-> "nil", count |-> 0]
TransportErr == [kind |-> "transport", count |-> 0]
ContextErr == [kind |-> "context", count |-> 0]

\* HTTP statuses the server answers with
Statuses == {200, 404, 500, 501, 503}

\* result of one client.Do: a transport error or a response
NetFail == [err |-> TransportErr, status |-> NilResp]
Answer(s) == [err |-> NoErr, status |-> s]
Outcomes == {NetFail} \cup {Answer(s) : s \in Statuses}

DefaultMaxRetries == 3
DefaultCodes == {500, 502, 503, 504}
DefaultRetryPolicy == [MaxRetries |-> DefaultMaxRetries, Codes |-> DefaultCodes]

\* policies a Client is built with (DefaultRetryPolicy or WithRetryPolicy)
Policies ==
    {DefaultRetryPolicy}
    \cup [MaxRetries : (-1) .. MaxRetriesBound, Codes : {DefaultCodes, {}, {404, 503}}]

\* every 5xx status retried, whatever the policy lists
ShouldRetryAny5xx(p, statusCode) == statusCode \in p.Codes \/ statusCode >= 500

ShouldRetry(p, statusCode) == statusCode \in p.Codes

\* off by one: the loop stops one attempt early
MoreAttemptsOffByOne(p, a) == a < p.MaxRetries

\* the condition of the retry loop: attempt <= c.retryPolicy.MaxRetries
MoreAttempts(p, a) == a <= p.MaxRetries

isRetryableError(e) == e # NoErr

\* the request carries the caller's context, except the one Client.Get builds
\* with newRequest: http.NewRequest gives it context.Background()
UsesCallerCtx == ~(impl = "do" /\ req = "GET")

\* req.Context() is done
CtxDone == ctxCancelled /\ UsesCallerCtx

\* client.Do returning the error of a done context without touching the network
CtxFail == [status |-> NilResp, err |-> ContextErr]

\* client.Do under a context: a done context only ever yields its error
DoOutcomes == IF CtxDone THEN {CtxFail} ELSE Outcomes

\* the body of the request: the login payload of a POST, none for a GET
RequestBody(m) == IF m = "POST" THEN <<1, 2>> ELSE <<>>

\* what req.Body still holds once off bytes were read from it
Remaining(m, off) == SubSeq(RequestBody(m), off + 1, Len(RequestBody(m)))

\* offsets client.Do can leave req.Body at: an answered request was written
\* whole, a failed one up to any point, one refused by the context not at all
ReadUpTo(o, m, off) ==
    IF o = CtxFail THEN {off}
    ELSE IF o.err = NoErr THEN {Len(RequestBody(m))}
    ELSE off .. Len(RequestBody(m))

\* the requests that reached the network
Sent(o, m) == IF o = CtxFail THEN sent ELSE Append(sent, m)

WaitingOnLimiter ==
    \/ impl = "do" /\ tpc = "limiter"
    \/ impl = "doWithRetry" /\ tpc = "loop" /\ MoreAttempts(policy, attempt)
InBackoff == tpc \in {"backoff", "sleep"}
NotCancelled == [where |-> "never", sent |-> 0]

Return(r, e) == [resp |-> r, err |-> e]
NoResult == [resp |-> NilResp, err |-> [kind |-> "pending", count |-> 0]]

Wrapped(kind, n) == [kind |-> kind, count |-> n]

\* the call has returned to its caller
TReturn(r, e) ==
    /\ tres' = Return(r, e)
    /\ tpc' = "done"

\* Client.do: c.rateLimiter.Wait(req.Context()) ahead of the retry loop
DoLimiterWait ==
    /\ impl = "do"
    /\ tpc = "limiter"
    /\ IF CtxDone
         THEN /\ TReturn(NilResp, Wrapped("rate limiter error", 0))
              /\ UNCHANGED admitted
         ELSE /\ tpc' = "loop"
              /\ admitted' = admitted + 1
              /\ UNCHANGED tres
    /\ UNCHANGED <<impl, policy, req, attempt, resp, err, outcomes, sent, ctxCancelled>>
    /\ UNCHANGED <<bodyOff, offered, cancelledAt, openBodies>>
    /\ UNCHANGED <<lvars, dvars, ovars>>

\* client.Do hands back a response with an open body exactly when it
\* returns no error
Received(o) == IF o.err = NoErr THEN 1 ELSE 0

\* bodies Client.doWithRetry closes after an attempt: the one of a response
\* it does not return
ClosedByRetry(o) == IF o.err = NoErr /\ o.status >= 500 THEN 1 ELSE 0

\* Client.do: one iteration of the retry loop up to the backoff
DoAttempt ==
    /\ impl = "do"
    /\ tpc = "loop"
    /\ MoreAttempts(policy, attempt)
    /\ \E o \in DoOutcomes :
         \* req.Body, reqErr = req.GetBody(): a fresh reader over bodyBytes
         /\ offered' = Append(offered, Remaining(req, 0))
         /\ sent' = Sent(o, req)
         /\ outcomes' = Append(outcomes, o)
         /\ resp' = o.status
         /\ err' = o.err
         \* no statement of the loop closes the body of a response it drops
         /\ openBodies' = openBodies + Received(o)
         /\ IF o.err = NoErr /\ ~ShouldRetry(policy, o.status)
              THEN /\ TReturn(o.status, NoErr)
                   /\ UNCHANGED attempt
              ELSE IF attempt < policy.MaxRetries
                     THEN /\ tpc' = "backoff"
                          /\ UNCHANGED <<attempt, tres>>
                     ELSE /\ attempt' = attempt + 1
                          /\ UNCHANGED <<tpc, tres>>
    /\ UNCHANGED <<impl, policy, req, ctxCancelled>>
    /\ UNCHANGED <<admitted, bodyOff, cancelledAt>>
    /\ UNCHANGED <<lvars, dvars, ovars>>

\* Client.do: select on time.After(backoff), the timer fires
DoBackoffElapsed ==
    /\ impl = "do"
    /\ tpc = "backoff"
    /\ attempt' = attempt + 1
    /\ tpc' = "loop"
    /\ UNCHANGED <<impl, policy, req, resp, err, tres, outcomes, sent, ctxCancelled, hvars>>
    /\ UNCHANGED <<lvars, dvars, ovars>>

\* Client.do: select on req.Context().Done()
DoBackoffCancelled ==
    /\ impl = "do"
    /\ tpc = "backoff"
    /\ CtxDone
    /\ TReturn(NilResp, ContextErr)
    /\ UNCHANGED <<impl, policy, req, attempt, resp, err, outcomes, sent, ctxCancelled, hvars>>
    /\ UNCHANGED <<lvars, dvars, ovars>>

\* Client.do: the statements after the retry loop
DoExhausted ==
    /\ impl = "do"
    /\ tpc = "loop"
    /\ ~MoreAttempts(policy, attempt)
    /\ IF err # NoErr
         THEN TReturn(NilResp, Wrapped("request failed after attempts", policy.MaxRetries + 1))
         ELSE TReturn(resp, NoErr)
    /\ UNCHANGED <<impl, policy, req, attempt, resp, err, outcomes, sent, ctxCancelled, hvars>>
    /\ UNCHANGED <<lvars, dvars, ovars>>

\* Client.doWithRetry: c.rateLimiter.Wait at the head of every iteration
RetryLimiterWait ==
    /\ impl = "doWithRetry"
    /\ tpc = "loop"
    /\ MoreAttempts(policy, attempt)
    /\ IF CtxDone
         THEN /\ TReturn(NilResp, ContextErr)
              /\ UNCHANGED admitted
         ELSE /\ tpc' = "send"
              /\ admitted' = admitted + 1
              /\ UNCHANGED tres
    /\ UNCHANGED <<impl, policy, req, attempt, resp, err, outcomes, sent, ctxCancelled>>
    /\ UNCHANGED <<bodyOff, offered, cancelledAt, openBodies>>
    /\ UNCHANGED <<lvars, dvars, ovars>>

\* Client.doWithRetry: c.client.Do and the decisions that follow it
RetryAttempt ==
    /\ impl = "doWithRetry"
    /\ tpc = "send"
    /\ \E o \in DoOutcomes :
         \* the request is handed to client.Do as the attempt before left it
         /\ offered' = Append(offered, Remaining(req, bodyOff))
         /\ bodyOff' \in ReadUpTo(o, req, bodyOff)
         /\ sent' = Sent(o, req)
         /\ outcomes' = Append(outcomes, o)
         /\ resp' = o.status
         /\ err' = o.err
         \* resp.Body.Close() on every response that is not returned
         /\ openBodies' = openBodies + Received(o) - ClosedByRetry(o)
         /\ IF o.err = NoErr /\ o.status < 500
              THEN TReturn(o.status, NoErr)
              ELSE IF attempt = policy.MaxRetries \/ ~isRetryableError(o.err)
                     THEN TReturn(NilResp, o.err)
                     ELSE /\ tpc' = "sleep"
                          /\ UNCHANGED tres
    /\ UNCHANGED <<impl, policy, req, attempt, ctxCancelled>>
    /\ UNCHANGED <<admitted, cancelledAt>>
    /\ UNCHANGED <<lvars, dvars, ovars>>

\* Client.doWithRetry: time.Sleep(backoff), then attempt++
RetrySleep ==
    /\ impl = "doWithRetry"
    /\ tpc = "sleep"
    /\ attempt' = attempt + 1
    /\ tpc' = "loop"
    /\ UNCHANGED <<impl, policy, req, resp, err, tres, outcomes, sent, ctxCancelled, hvars>>
    /\ UNCHANGED <<lvars, dvars, ovars>>

\* Client.doWithRetry: the loop condition is false, return nil, err
RetryExhausted ==
    /\ impl = "doWithRetry"
    /\ tpc = "loop"
    /\ ~MoreAttempts(policy, attempt)
    /\ TReturn(NilResp, err)
    /\ UNCHANGED <<impl, policy, req, attempt, resp, err, outcomes, sent, ctxCancelled, hvars>>
    /\ UNCHANGED <<lvars, dvars, ovars>>

\* a call of the subsystem under study has started and not yet returned
Running ==
    \/ lpc = "none" /\ dpc = "none" /\ tpc # "done"
    \/ lpc \notin {"none", "done"}
    \/ dpc \notin {"none", "done"}

\* the caller cancels the context it passed in
CancelCtx ==
    /\ ~ctxCancelled
    /\ Running
    /\ ctxCancelled' = TRUE
    /\ cancelledAt' = [where |-> IF WaitingOnLimiter THEN "limiter"
                                 ELSE IF InBackoff THEN "backoff" ELSE "other",
                       sent |-> Len(sent)]
    /\ UNCHANGED <<impl, policy, req, tpc, attempt, resp, err, tres, outcomes, sent>>
    /\ UNCHANGED <<admitted, bodyOff, offered, openBodies>>
    /\ UNCHANGED <<lvars, dvars, ovars>>

\* Client.Get / Client.PostWithHeaders hand a request to the execute routine
TCall ==
    /\ tpc = "idle"
    /\ \E m \in {"GET", "POST"} : req' = m
    /\ tpc' = IF impl = "do" THEN "limiter" ELSE "loop"
    /\ UNCHANGED <<impl, policy, attempt, resp, err, tres, outcomes, sent, ctxCancelled>>
    /\ UNCHANGED hvars
    /\ UNCHANGED <<lvars, dvars, ovars>>


\* state of the transport before Client.Get / Client.PostWithHeaders is called
TInit(impls, policies) ==
    /\ impl \in impls
    /\ policy \in policies
    /\ req = "none"
    /\ tpc = "idle"
    /\ attempt = 0
    /\ resp = NilResp
    /\ err = NoErr
    /\ tres = NoResult
    /\ outcomes = <<>>
    /\ sent = <<>>
    /\ ctxCancelled = FALSE
    /\ admitted = 0
    /\ bodyOff = 0
    /\ offered = <<>>
    /\ cancelledAt = NotCancelled
    /\ openBodies = 0

----------------------------------------------------------------------------
(* Login: package oreilly, Service.Login *)

CookieValues == {"", "jwt1"}

\* the orm-jwt cookies the jar holds: learning is the list of their values that
\* Jar.Cookies returns for https://learning.oreilly.com, in its order; other
\* tells whether one is stored for another host only
LearningCookies == {<<>>} \cup {<<v>> : v \in CookieValues}
                   \cup {<<v, w>> : v \in CookieValues, w \in CookieValues}
JarStates == [learning : LearningCookies, other : BOOLEAN]
EmptyJar == [learning |-> <<>>, other |-> FALSE]

\* bodies the login endpoint answers with: the words the status branch looks
\* for, and the fields json.Unmarshal extracts (json = FALSE: not valid JSON)
JsonBody(at, ru) == [words |-> {}, json |-> TRUE, accessToken |-> at, redirectUri |-> ru]
TextBody(ws) == [words |-> ws, json |-> FALSE, accessToken |-> "", redirectUri |-> ""]
Bodies ==
    {JsonBody(at, ru) : at \in {"", "at1"}, ru \in {"", "bad uri", "uri1"}}
    \cup {TextBody(ws) : ws \in {{}, {"inactive"}, {"incorrect"}, {"Invalid"},
                                 {"inactive", "incorrect"}}}

NoBody == TextBody({})

\* strings.Contains(string(body), w)
Contains(body, w) == w \in body.words

\* http.NewRequestWithContext(ctx, "GET", finalizeURL, nil) rejects a URL it cannot parse
BuildsRequest(uri) == uri # "bad uri"

LoginResult(token, e) == [token |-> token, err |-> e]
LoginPending == LoginResult("", "pending")

LReturn(token, e) ==
    /\ lres' = LoginResult(token, e)
    /\ lpc' = "done"

\* priority swapped: the access token wins over the cookie
ResolveTokenBearerFirst(j, body) ==
    IF body.accessToken # "" THEN body.accessToken
    ELSE IF j.learning # <<>> THEN j.learning[1] ELSE ""

\* Step 4 of Login: the orm-jwt cookie returned for the learning URL, else the access token
ResolveToken(j, body) ==
    LET jwtToken == IF j.learning # <<>> THEN j.learning[1] ELSE ""
    IN  IF jwtToken = "" THEN body.accessToken ELSE jwtToken

\* the credentials test made before the inactive test
StatusFailureCredentialsFirst(body) ==
    IF Contains(body, "incorrect") \/ Contains(body, "Invalid")
      THEN "invalid email or password"
      ELSE IF Contains(body, "inactive") THEN "account is inactive"
      ELSE "unexpected response status"

\* the error Login returns for an answer to the credential POST whose status is not 200
StatusFailure(body) ==
    IF Contains(body, "inactive") THEN "account is inactive"
    ELSE IF Contains(body, "incorrect") \/ Contains(body, "Invalid")
      THEN "invalid email or password"
      ELSE "unexpected response status"

\* Step 1 of Login: GET the unified login page with the raw http.Client
LoginGetPage ==
    /\ lpc = "start"
    /\ sent' = Append(sent, "GET login")
    /\ \E o \in DoOutcomes :
         IF o.err # NoErr
           THEN /\ LReturn("", "failed to GET unified login page")
                /\ UNCHANGED jar
           ELSE /\ lpc' = "post"
                /\ jar' \in JarStates
                /\ UNCHANGED lres
    /\ UNCHANGED <<impl, policy, req, tpc, attempt, resp, err, tres, outcomes, ctxCancelled, hvars>>
    /\ UNCHANGED <<postBody, postRead, dvars, ovars>>

\* Step 2 of Login: s.client.PostWithHeaders hands the credential POST to Client.do
LoginPost ==
    /\ lpc = "post"
    /\ lpc' = "posting"
    /\ req' = "POST"
    /\ tpc' = "limiter"
    /\ UNCHANGED <<impl, policy, attempt, resp, err, tres, outcomes, sent, ctxCancelled>>
    /\ UNCHANGED hvars
    /\ UNCHANGED <<jar, postBody, postRead, lres, dvars, ovars>>

\* Step 2 of Login after PostWithHeaders returned: read, classify and parse the answer
LoginPostReturned ==
    /\ lpc = "posting"
    /\ tpc = "done"
    /\ IF tres.err # NoErr
         THEN /\ LReturn("", "login JSON POST failed")
              /\ UNCHANGED <<jar, postBody, postRead>>
         ELSE \E body \in Bodies, readFails \in BOOLEAN :
                /\ jar' \in JarStates
                /\ postRead' = IF readFails THEN postRead ELSE <<body>>
                /\ IF readFails
                     THEN /\ LReturn("", "failed to read JSON login response")
                          /\ UNCHANGED postBody
                     ELSE IF tres.resp # 200
                       THEN /\ UNCHANGED postBody
                            /\ LReturn("", StatusFailure(body))
                       ELSE IF ~body.json
                         THEN /\ LReturn("", "could not parse login response")
                              /\ UNCHANGED postBody
                         ELSE IF body.accessToken = "" \/ body.redirectUri = ""
                           THEN /\ LReturn("", "missing token or redirect URI")
                                /\ UNCHANGED postBody
                           ELSE /\ postBody' = body
                                /\ lpc' = "finalize"
                                /\ UNCHANGED lres
    /\ UNCHANGED <<tvars, dvars, ovars>>

\* Step 3 of Login: GET the redirect URI with the raw http.Client
LoginFinalize ==
    /\ lpc = "finalize"
    /\ IF ~BuildsRequest(postBody.redirectUri)
         THEN /\ LReturn("", "failed to build finalize session GET")
              /\ UNCHANGED <<jar, sent>>
         ELSE /\ sent' = Append(sent, "GET finalize")
              /\ \E o \in DoOutcomes :
                   IF o.err # NoErr
                     THEN /\ LReturn("", "GET finalize redirect failed")
                          /\ UNCHANGED jar
                     ELSE /\ lpc' = "resolve"
                          /\ jar' \in JarStates
                          /\ UNCHANGED lres
    /\ UNCHANGED <<impl, policy, req, tpc, attempt, resp, err, tres, outcomes, ctxCancelled, hvars>>
    /\ UNCHANGED <<postBody, postRead, dvars, ovars>>

\* Step 4 of Login: pick the token and return
LoginResolve ==
    /\ lpc = "resolve"
    /\ LET jwtToken == ResolveToken(jar, postBody)
       IN  IF jwtToken = ""
             THEN LReturn("", "no valid token found after login flow")
             ELSE LReturn(jwtToken, "nil")
    /\ UNCHANGED <<tvars, jar, postBody, postRead, dvars, ovars>>

LInit(pc) ==
    /\ lpc = pc
    /\ jar = EmptyJar
    /\ postBody = NoBody
    /\ postRead = <<>>
    /\ lres = LoginPending


----------------------------------------------------------------------------
(* Download: package oreilly, Service.DownloadEPUB / Service.DownloadPDF *)

\* a path is the sequence of its name and suffixes; "" is <<>>
EpubPath == <<"book", ".epub">>
BarePath == <<"notes">>
DestPaths == {EpubPath, BarePath}

\* strings.TrimSuffix(p, suffix)
TrimSuffix(p, suffix) ==
    IF Len(p) > 0 /\ p[Len(p)] = suffix THEN SubSeq(p, 1, Len(p) - 1) ELSE p

\* the fallback written to the primary destination
PdfDestSamePath(destPath) == destPath

\* pdfDest := strings.TrimSuffix(destPath, ".epub") + ".pdf"
PdfDest(destPath) == TrimSuffix(destPath, ".epub") \o <<".pdf">>

\* names os.CreateTemp can pick
TmpNames == {<<".goreilly-1">>}

\* the files of the destination directory the model follows
PdfPaths == {<<"book", ".pdf">>, <<"notes", ".pdf">>}
AllPaths == DestPaths \cup PdfPaths \cup TmpNames

Absent == [exists |-> FALSE, data |-> <<>>]
File(d) == [exists |-> TRUE, data |-> d]
OldData == <<9>>

Bytes == {1, 2}
BodiesOfLen(n) == [1 .. n -> Bytes]
ResponseBodies == UNION {BodiesOfLen(n) : n \in 0 .. MaxBody}

\* content types as the sequence of their parts
EpubType == <<"application/", "epub", "+zip">>
PdfType == <<"application/", "pdf">>
HtmlType == <<"text/", "html">>
ContentTypes == {EpubType, PdfType, HtmlType}

\* strings.HasPrefix(s, prefix)
HasPrefix(s, prefix) ==
    /\ Len(prefix) <= Len(s)
    /\ SubSeq(s, 1, Len(prefix)) = prefix

\* a check that accepts every application/ type
AnyApplicationPrefix(f) == <<"application/">>

\* the prefix the content type of a download must have
ExpectedPrefix(f) ==
    IF f = "epub" THEN <<"application/", "epub">> ELSE <<"application/", "pdf">>

\* readErrAt = -1: the whole body arrives and ends in io.EOF;
\* readErrAt = K: Body.Read fails once K bytes have been returned
Complete == -1

\* resp.ContentLength of a response without a Content-Length header
UnknownLength == -1

\* resp.ContentLength: the length of the body as the header declares it, or
\* UnknownLength for a chunked or transparently decompressed body
ContentLengths(b) == {Len(b), UnknownLength}

Response(st, ct, b, k, cl) ==
    [status |-> st, ctype |-> ct, body |-> b, readErrAt |-> k, contentLen |-> cl]
NoResponse == Response(0, HtmlType, <<>>, Complete, UnknownLength)

\* answers of the content server; the body is only looked at on a 200 of the
\* expected content type
Responses(f) ==
    {Response(st, HtmlType, <<>>, Complete, 0) : st \in {404, 500}}
    \cup {Response(200, ct, <<>>, Complete, 0) : ct \in {c \in ContentTypes : ~HasPrefix(c, ExpectedPrefix(f))}}
    \cup UNION {{Response(200, ct, b, k, cl) :
                   ct \in {c \in ContentTypes : HasPrefix(c, ExpectedPrefix(f))},
                   k \in (-1) .. MaxBody,
                   cl \in ContentLengths(b)} : b \in ResponseBodies}

WellFormed(r) == r.readErrAt <= Len(r.body)

\* errors of the download functions: the message, whether errors.Is(err,
\* os.ErrNotExist) holds, and the message of the fallback error it embeds
DErr(kind, notExist, inner) == [kind |-> kind, notExist |-> notExist, inner |-> inner]
DNil == DErr("nil", FALSE, "")
DPending == DErr("pending", FALSE, "")

Args(jwt, slug, destPath) == [jwt |-> jwt, slug |-> slug, destPath |-> destPath]
ArgSets ==
    {Args("tok", "slug", p) : p \in DestPaths}
    \cup {Args("", "slug", EpubPath), Args("tok", "", EpubPath), Args("tok", "slug", <<>>)}

\* the function leaves through its return statement; the deferred calls run first
Leave(e) ==
    /\ pending' = e
    /\ dpc' = IF tmpOpen \/ tmp # <<>> THEN "deferred" ELSE "return"

\* argument checks, request construction and s.client.GetHTTPClient().Do(req)
DlRequest ==
    /\ dpc = "request"
    /\ IF args.jwt = ""
         THEN Leave(DErr("empty JWT token", FALSE, "")) /\ UNCHANGED <<dresp, dreq>>
         ELSE IF args.slug = ""
           THEN Leave(DErr("empty book slug", FALSE, "")) /\ UNCHANGED <<dresp, dreq>>
           ELSE IF dest = <<>>
             THEN Leave(DErr("empty destination path", FALSE, "")) /\ UNCHANGED <<dresp, dreq>>
             ELSE \/ /\ dreq' = Append(dreq, [cand |-> fn, status |-> 0])
                     /\ Leave(DErr("request", FALSE, ""))
                     /\ UNCHANGED dresp
                  \/ /\ \E r \in Responses(fn) :
                          /\ WellFormed(r)
                          /\ dresp' = r
                          /\ dreq' = Append(dreq, [cand |-> fn, status |-> r.status])
                     /\ dpc' = "status"
                     /\ UNCHANGED pending
    /\ UNCHANGED <<fn, entry, args, dirExists0, dest, dirExists, fs, fs0, rpos, tmp, tmpOpen, dres, fault>>
    /\ UNCHANGED <<tvars, lvars, ovars, pvars>>

\* the fallback taken on every status other than 200
IsNotFoundAnyFailure(status) == status # 200

\* case http.StatusNotFound
IsNotFound(status) == status = 404

\* switch resp.StatusCode
DlStatus ==
    /\ dpc = "status"
    /\ IF dresp.status = 200
         THEN /\ dpc' = "ctype"
              /\ UNCHANGED <<fn, dest, pending>>
         ELSE IF IsNotFound(dresp.status)
           THEN IF fn = "epub"
                  THEN \* s.DownloadPDF(ctx, jwt, slug, pdfDest, progress)
                       /\ fn' = "pdf"
                       /\ dest' = PdfDest(dest)
                       /\ dpc' = "request"
                       /\ UNCHANGED pending
                  ELSE /\ Leave(DErr("pdf not found", TRUE, ""))
                       /\ UNCHANGED <<fn, dest>>
           ELSE /\ Leave(DErr("download failed", FALSE, ""))
                /\ UNCHANGED <<fn, dest>>
    /\ UNCHANGED <<entry, args, dirExists0, dirExists, fs, fs0, dresp, rpos, tmp, tmpOpen, dres, dreq, fault>>
    /\ UNCHANGED <<tvars, lvars, ovars, pvars>>

\* the content-type sanity check
DlContentType ==
    /\ dpc = "ctype"
    /\ IF HasPrefix(dresp.ctype, ExpectedPrefix(fn))
         THEN dpc' = "mkdir" /\ UNCHANGED pending
         ELSE Leave(DErr("unexpected content-type", FALSE, ""))
    /\ UNCHANGED <<fn, entry, args, dirExists0, dest, dirExists, fs, fs0, dresp, rpos, tmp, tmpOpen, dres, dreq, fault>>
    /\ UNCHANGED <<tvars, lvars, ovars, pvars>>

Faulted(name) == fault' = IF fault = "none" THEN name ELSE fault

\* os.MkdirAll(filepath.Dir(destPath), 0o755)
DlMkdirAll ==
    /\ dpc = "mkdir"
    /\ \/ /\ dirExists' = TRUE
          /\ dpc' = "createTemp"
          /\ UNCHANGED <<pending, fault>>
       \/ /\ Leave(DErr("mkdir", FALSE, ""))
          /\ Faulted("mkdir")
          /\ UNCHANGED dirExists
    /\ UNCHANGED <<fn, entry, args, dirExists0, dest, fs, fs0, dresp, rpos, tmp, tmpOpen, dres, dreq>>
    /\ UNCHANGED <<tvars, lvars, ovars, pvars>>

\* os.CreateTemp(filepath.Dir(destPath), ".goreilly-*") and the defer that follows it
DlCreateTemp ==
    /\ dpc = "createTemp"
    /\ \/ \E name \in TmpNames :
            /\ ~fs[name].exists
            /\ fs' = [fs EXCEPT ![name] = File(<<>>)]
            /\ tmp' = name
            /\ tmpOpen' = TRUE
            /\ rpos' = 0
            /\ sinceEmit' = 0
            /\ dpc' = "copy"
            /\ UNCHANGED <<pending, fault>>
       \/ /\ Leave(DErr("create temp", FALSE, ""))
          /\ Faulted("createTemp")
          /\ UNCHANGED <<fs, tmp, tmpOpen, rpos, sinceEmit>>
    /\ UNCHANGED <<fn, entry, args, dirExists0, dest, dirExists, fs0, dresp, dres, dreq>>
    /\ UNCHANGED <<tvars, lvars, ovars, progress, emitted>>

\* what resp.Body.Read(buf) can return once rpos bytes have been read: <<nr, er>>.
\* net/http ends a length- or chunk-framed body in io.EOF only after its last
\* byte; a connection that stops earlier, a timeout or a cancelled context
\* surfaces as another error, possibly together with the last bytes received
Reads(r, pos) ==
    LET limit == IF r.readErrAt = Complete THEN Len(r.body) ELSE r.readErrAt
        most == IF limit - pos < BufLen THEN limit - pos ELSE BufLen
    IN  {<<nr, "nil">> : nr \in 1 .. most}
        \cup {<<nr, "EOF">> : nr \in {n \in 0 .. most : r.readErrAt = Complete /\ pos + n = limit}}
        \cup {<<nr, "error">> : nr \in {n \in 0 .. most : r.readErrAt # Complete /\ pos + n = limit}}

\* what tmpFile.Write of a slice of n bytes can return: <<nw, ew>>
Writes(n) ==
    {<<n, "nil">>}
    \cup {<<nw, "error">> : nw \in 0 .. n - 1}
    \cup {<<nw, "nil">> : nw \in 0 .. n - 1}

\* the whole buffer written instead of buf[0:n]: stale bytes follow the data
ChunkWholeBuffer(body, pos, n) ==
    SubSeq(body, pos + 1, pos + n) \o [i \in 1 .. BufLen - n |-> 0]

\* buf[0:n] after a Read that started at offset pos of the body
Chunk(body, pos, n) == SubSeq(body, pos + 1, pos + n)

\* the copy loop writing straight into the destination
WriteTargetDest == dest

\* the file the copy loop writes to: tmpFile
WriteTarget == tmp

\* every error of Read taken for the end of the body
OnReadResultAnyErrorBreaks(er) ==
    IF er = "nil" THEN "continue" ELSE "break"

\* the branch taken on the er of a Read: io.EOF breaks, any other error fails
OnReadResult(er) ==
    IF er = "nil" THEN "continue" ELSE IF er = "EOF" THEN "break" ELSE "fail"

\* 250*time.Millisecond, in ticks
Throttle == 1

\* a callback is reported to whenever one was passed
ShouldReportAnyLength(pr, cl) == pr # "nil"

\* progress != nil && contentLen > 0
ShouldReport(pr, cl) == pr # "nil" /\ cl > 0

\* the throttle left out: every chunk is reported
ShouldEmitAlways(gap, er) == TRUE

\* time.Since(lastEmit) > 250*time.Millisecond || er == io.EOF
ShouldEmit(gap, er) == gap > Throttle \/ er = "EOF"

\* the share that is still to come instead of the share written
PercentRemaining(written, total) == [num |-> (total - written) * 100, den |-> total]

\* float64(written) * 100 / float64(contentLen), kept as a fraction
Percent(written, total) == [num |-> written * 100, den |-> total]

\* time a Read can take; lastEmit is looked at only when ShouldReport holds,
\* and the clock stands still in the model otherwise
Delays == IF ShouldReport(progress, dresp.contentLen) THEN 0 .. MaxGap ELSE {0}

Elapsed(d) == IF sinceEmit + d > MaxGap THEN MaxGap ELSE sinceEmit + d

\* the progress block that follows a complete write of nr bytes
Report(written, gap, er) ==
    IF ShouldReport(progress, dresp.contentLen) /\ ShouldEmit(gap, er)
      THEN /\ emitted' = Append(emitted, [percent |-> Percent(written, dresp.contentLen),
                                          gap |-> gap, atEOF |-> er = "EOF"])
           /\ sinceEmit' = 0
      ELSE /\ sinceEmit' = gap
           /\ UNCHANGED emitted

\* one iteration of the copy loop
DlCopy ==
    /\ dpc = "copy"
    /\ \E rd \in Reads(dresp, rpos), d \in Delays :
         LET nr == rd[1]
             er == rd[2]
             gap == Elapsed(d)
         IN  IF nr > 0
               THEN \E wr \in Writes(Len(Chunk(dresp.body, rpos, nr))) :
                      LET nw == wr[1]
                          ew == wr[2]
                      IN  /\ fs' = [fs EXCEPT ![WriteTarget] =
                                      File(@.data \o SubSeq(Chunk(dresp.body, rpos, nr), 1, nw))]
                          /\ rpos' = rpos + nr
                          /\ IF ew # "nil"
                               THEN /\ Leave(DErr("write tmp", FALSE, ""))
                                    /\ Faulted("write")
                                    /\ sinceEmit' = gap /\ UNCHANGED emitted
                               ELSE IF nw < nr
                                 THEN /\ Leave(DErr("short write", FALSE, ""))
                                      /\ Faulted("short write")
                                      /\ sinceEmit' = gap /\ UNCHANGED emitted
                                 ELSE /\ UNCHANGED fault
                                      /\ Report(rpos + nw, gap, er)
                                      /\ IF OnReadResult(er) = "break"
                                           THEN dpc' = "sync" /\ UNCHANGED pending
                                           ELSE IF OnReadResult(er) = "fail"
                                             THEN Leave(DErr("read body", FALSE, ""))
                                             ELSE UNCHANGED <<dpc, pending>>
               ELSE /\ UNCHANGED <<fs, rpos, fault, emitted>>
                    /\ sinceEmit' = gap
                    /\ IF OnReadResult(er) = "break"
                         THEN dpc' = "sync" /\ UNCHANGED pending
                         ELSE Leave(DErr("read body", FALSE, ""))
    /\ UNCHANGED <<fn, entry, args, dirExists0, dest, dirExists, fs0, dresp, tmp, tmpOpen, dres, dreq>>
    /\ UNCHANGED <<tvars, lvars, ovars, progress>>

\* tmpFile.Sync()
DlSync ==
    /\ dpc = "sync"
    /\ \/ dpc' = "close" /\ UNCHANGED <<pending, fault>>
       \/ Leave(DErr("sync", FALSE, "")) /\ Faulted("sync")
    /\ UNCHANGED <<fn, entry, args, dirExists0, dest, dirExists, fs, fs0, dresp, rpos, tmp, tmpOpen, dres, dreq>>
    /\ UNCHANGED <<tvars, lvars, ovars, pvars>>

\* tmpFile.Close()
DlClose ==
    /\ dpc = "close"
    /\ tmpOpen' = FALSE
    /\ \/ dpc' = "rename" /\ UNCHANGED <<pending, fault>>
       \/ Leave(DErr("close", FALSE, "")) /\ Faulted("close")
    /\ UNCHANGED <<fn, entry, args, dirExists0, dest, dirExists, fs, fs0, dresp, rpos, tmp, dres, dreq>>
    /\ UNCHANGED <<tvars, lvars, ovars, pvars>>

\* os.Rename(tmpFile.Name(), destPath), then return nil
DlRename ==
    /\ dpc = "rename"
    /\ \/ /\ fs[tmp].exists
          /\ fs' = [fs EXCEPT ![dest] = fs[tmp], ![tmp] = Absent]
          /\ Leave(DNil)
          /\ UNCHANGED fault
       \/ /\ Leave(DErr("rename", FALSE, ""))
          /\ Faulted("rename")
          /\ UNCHANGED fs
    /\ UNCHANGED <<fn, entry, args, dirExists0, dest, dirExists, fs0, dresp, rpos, tmp, tmpOpen, dres, dreq>>
    /\ UNCHANGED <<tvars, lvars, ovars, pvars>>

\* a removal that leaves the file in place
RemoveNothing(files, name) == files

\* os.Remove(name)
Remove(files, name) == [files EXCEPT ![name] = Absent]

\* the deferred function: tmpFile.Close(); os.Remove(tmpFile.Name())
DlDeferred ==
    /\ dpc = "deferred"
    /\ tmpOpen' = FALSE
    /\ fs' = Remove(fs, tmp)
    /\ tmp' = <<>>
    /\ dpc' = "return"
    /\ UNCHANGED <<fn, entry, args, dirExists0, dest, dirExists, fs0, dresp, rpos, pending, dres, dreq, fault>>
    /\ UNCHANGED <<tvars, lvars, ovars, pvars>>

\* the error DownloadEPUB builds from the result of its DownloadPDF fallback
FallbackResult(pdfErr) ==
    IF pdfErr = DNil
      THEN DNil
      ELSE DErr("epub and pdf not found", TRUE, pdfErr.kind)

\* the running function returns: to DownloadEPUB's 404 branch, or to the caller
DlReturn ==
    /\ dpc = "return"
    /\ IF fn = "pdf" /\ entry = "epub"
         THEN /\ fn' = "epub"
              /\ dest' = args.destPath
              /\ pending' = FallbackResult(pending)
              /\ UNCHANGED <<dpc, dres>>
         ELSE /\ dres' = pending
              /\ dpc' = "done"
              /\ UNCHANGED <<fn, dest, pending>>
    /\ UNCHANGED <<entry, args, dirExists0, dirExists, fs, fs0, dresp, rpos, tmp, tmpOpen, dreq, fault>>
    /\ UNCHANGED <<tvars, lvars, ovars, pvars>>

DInit(pc, callbacks) ==
    /\ dpc = pc
    /\ entry \in (IF pc = "none" THEN {"epub"} ELSE {"epub", "pdf"})
    /\ fn = entry
    /\ args \in (IF pc = "none" THEN {Args("tok", "slug", EpubPath)} ELSE ArgSets)
    /\ dest = args.destPath
    /\ dirExists \in (IF pc = "none" THEN {FALSE} ELSE BOOLEAN)
    /\ fs \in [AllPaths -> {Absent, File(OldData)}]
    /\ \A p \in AllPaths : fs[p].exists => dirExists /\ p \notin TmpNames
    /\ dirExists0 = dirExists
    /\ fs0 = fs
    /\ dresp = NoResponse
    /\ rpos = 0
    /\ tmp = <<>>
    /\ tmpOpen = FALSE
    /\ pending = DPending
    /\ dres = DPending
    /\ dreq = <<>>
    /\ fault = "none"
    /\ progress \in callbacks
    /\ sinceEmit = 0
    /\ emitted = <<>>

----------------------------------------------------------------------------
(* Backoff: RetryPolicy.CalculateBackoff and Client.calculateBackoff *)

\* time.Duration is a signed integer; its arithmetic wraps around
MinDuration == -(2 ^ (DurationBits - 1))
MaxDuration == 2 ^ (DurationBits - 1) - 1
Wrap(x) == ((x - MinDuration) % (2 ^ DurationBits)) + MinDuration

\* integer division of Go: the quotient is truncated toward zero
Quot(a, b) == IF a >= 0 THEN a \div b ELSE -((-a) \div b)

\* time.Duration(f) of the float num/den: truncated toward zero; the result
\* of converting a value the integer type cannot hold depends on the target
\* architecture (the smallest integer on amd64, the nearest one on arm64)
FloatToDuration(num, den) ==
    IF Quot(num, den) < MinDuration THEN {MinDuration}
    ELSE IF Quot(num, den) > MaxDuration THEN {MinDuration, MaxDuration}
    ELSE {Quot(num, den)}

\* 100 * time.Millisecond, the tick of the model
DefaultInitialBackoff == 1

\* 5 * time.Second
DefaultMaxBackoff == 50

\* retry policies with initial backoff <= max backoff; Initial and Max stand
\* for InitialBackoff/MaxBackoff of RetryPolicy and MinDelay/MaxDelay of Client
BackoffPolicies ==
    {pl \in [Initial : {0, 1, 3}, Max : {0, 3, DefaultMaxBackoff}] : pl.Initial <= pl.Max}

\* one computed delay: the delay before clamping, the delay returned, the
\* random draw it was computed with, and whether the call panicked instead
Call(pre, delay, draw, panic) ==
    [made |-> TRUE, pre |-> pre, delay |-> delay, draw |-> draw, panic |-> panic]
NoCall == [made |-> FALSE, pre |-> 0, delay |-> 0, draw |-> 0, panic |-> FALSE]

\* if delay > max { delay = max }
Clamp(delay, max) == IF delay > max THEN max ELSE delay

\* the zero fields of the policy replaced by the defaults (written to *r)
WithDefaults(r) ==
    [Initial |-> IF r.Initial = 0 THEN DefaultInitialBackoff ELSE r.Initial,
     Max |-> IF r.Max = 0 THEN DefaultMaxBackoff ELSE r.Max]

\* RetryPolicy.CalculateBackoff(attempt): the delays it can return; f/JitterDen
\* is the value of rand.Float64(), so jitter = (JitterDen + 2f) / (2 JitterDen)
CalculateBackoff(r, att) ==
    UNION {{Call(pre, Clamp(pre, WithDefaults(r).Max), f, FALSE) :
              pre \in FloatToDuration(WithDefaults(r).Initial * (2 ^ att) * (JitterDen + 2 * f),
                                      2 * JitterDen)} :
           f \in 0 .. JitterDen - 1}

\* time.Duration(1 << uint(attempt)): a shift by the width or more gives 0
ShiftOne(att) == IF att >= DurationBits THEN 0 ELSE Wrap(2 ^ att)

\* Client.calculateBackoff(attempt): the delays it can return; rand.Int63n(n)
\* panics unless n > 0
calculateBackoff(pl, att) ==
    LET raw == Wrap(pl.Initial * ShiftOne(att))
        backoff == Clamp(raw, pl.Max)
        jitter == Quot(3 * backoff, 4)
    IN  IF jitter <= 0
          THEN {Call(raw, 0, 0, TRUE)}
          ELSE {Call(raw, Wrap(Quot(backoff, 2) + n), n, FALSE) : n \in 0 .. jitter - 1}

\* the retry loop of Client.do asks for the delay that follows attempt battempt
RetryPolicyBackoff ==
    /\ bimpl = "CalculateBackoff"
    /\ battempt <= MaxAttempt
    /\ \E c \in CalculateBackoff(bpolicy, battempt) :
         /\ blast' = c
         /\ bprev' = blast
    /\ bpolicy' = WithDefaults(bpolicy)
    /\ battempt' = battempt + 1
    /\ UNCHANGED <<bimpl, tvars, lvars, dvars, avars, xvars>>

\* the retry loop of Client.doWithRetry asks for the delay that follows
\* attempt battempt
ClientBackoff ==
    /\ bimpl = "calculateBackoff"
    /\ battempt <= MaxAttempt
    /\ ~blast.panic
    /\ \E c \in calculateBackoff(bpolicy, battempt) :
         /\ blast' = c
         /\ bprev' = blast
    /\ battempt' = battempt + 1
    /\ UNCHANGED <<bimpl, bpolicy, tvars, lvars, dvars, avars, xvars>>

BInit(impls) ==
    /\ bimpl \in impls
    /\ bpolicy \in (IF impls = {"none"} THEN {[Initial |-> 0, Max |-> 0]} ELSE BackoffPolicies)
    /\ battempt = 0
    /\ bprev = NoCall
    /\ blast = NoCall

----------------------------------------------------------------------------
(* Session store: package auth, Service.TokenFromCookieFile / GetToken /
   IsAuthenticated, and the check app.Run makes at process start *)

\* time.Time{}: the Expires of a cookie that carries no expiry
ZeroTime == 0

\* 1 * time.Hour, in ticks of the clock
Hour == 2

SessionCookie == "orm-jwt"

\* what LoadCookieFile hands back: the cookies of the file, in file order
Cookie(n, v, e) == [name |-> n, value |-> v, expires |-> e]
Cookies == {Cookie(n, v, e) : n \in {SessionCookie, "sid"}, v \in {"", "jwt1"}, e \in {ZeroTime, 2}}
CookieFiles == UNION {[1 .. n -> Cookies] : n \in 0 .. MaxCookies}

Token(a, t, ttl, at) == [accessToken |-> a, tokenType |-> t, expiresIn |-> ttl, expiresAt |-> at]
NoToken == Token("", "", 0, ZeroTime)

\* content of ~/.config/goreilly/token.json
NoFile == [kind |-> "absent", token |-> NoToken]
Truncated == [kind |-> "truncated", token |-> NoToken]

\* json.Marshal(token) as written by os.WriteFile
Marshal(tk) == [kind |-> "json", token |-> tk]

\* json.Unmarshal(data, &token): <<token, err>>
Unmarshal(f) == IF f.kind = "json" THEN <<f.token, "nil">> ELSE <<NoToken, "json error">>

\* the loop without its break: the last cookie of that name wins
FindJwtLast(cs) ==
    LET named == {i \in 1 .. Len(cs) : cs[i].name = SessionCookie}
    IN  IF named = {} THEN Cookie(SessionCookie, "", ZeroTime)
        ELSE cs[CHOOSE i \in named : \A k \in named : k <= i]

\* the loop over the cookies: jwt and exp of the first cookie named orm-jwt
FindJwt(cs) ==
    LET named == {i \in 1 .. Len(cs) : cs[i].name = SessionCookie}
    IN  IF named = {} THEN Cookie(SessionCookie, "", ZeroTime)
        ELSE cs[CHOOSE i \in named : \A k \in named : i <= k]

\* the result of an operation of the service: the operation, its input, the
\* clock when it ran, the session file before it, what it returned, and
\* whether a file system call failed under it
Result(op, input, before, tk, ok, e, failed) ==
    [op |-> op, input |-> input, at |-> now, before |-> before,
     token |-> tk, ok |-> ok, err |-> e, fault |-> failed]
NoResult0 == [op |-> "none", input |-> <<>>, at |-> 0, before |-> NoFile,
              token |-> NoToken, ok |-> FALSE, err |-> "nil", fault |-> FALSE]

\* Service.saveToken: what the file holds afterwards and the error returned;
\* MkdirAll can fail before the file is touched, WriteFile after truncating it
SaveToken(tk) ==
    {<<Marshal(tk), "nil">>, <<tokenFile, "save error">>, <<Truncated, "save error">>}

\* permission bits of a file; NoMode is the mode of a file that does not exist
NoMode == "none"
OwnerOnly == "0600"
FileModes == {OwnerOnly, "0644"}

\* os.WriteFile(name, data, perm): perm is given to a file it creates, a file
\* that exists is truncated and keeps the mode it has
WriteFileMode(mode, perm) == IF mode = NoMode THEN perm ELSE mode

\* the mode of token.json after the outcome sv of Service.saveToken
SavedMode(sv) == IF sv[1].kind = "absent" THEN NoMode ELSE WriteFileMode(tokenMode, OwnerOnly)

\* Service.TokenFromCookieFile(cookiePath)
TokenFromCookieFile ==
    /\ \/ \* LoadCookieFile fails
          /\ ares' = Result("import", <<>>, tokenFile, NoToken, FALSE, "load cookie file", TRUE)
          /\ UNCHANGED <<tokenFile, tokenMode>>
       \/ \E cs \in CookieFiles :
            LET jwt == FindJwt(cs).value
                exp == IF FindJwt(cs).expires = ZeroTime THEN now + Hour ELSE FindJwt(cs).expires
                token == Token(jwt, "Bearer", exp - now, exp)
            IN  IF jwt = ""
                  THEN /\ ares' = Result("import", cs, tokenFile, NoToken, FALSE, "invalid token", FALSE)
                       /\ UNCHANGED <<tokenFile, tokenMode>>
                  ELSE \E sv \in SaveToken(token) :
                         /\ tokenFile' = sv[1]
                         /\ tokenMode' = SavedMode(sv)
                         /\ ares' = IF sv[2] = "nil"
                                      THEN Result("import", cs, tokenFile, token, TRUE, "nil", FALSE)
                                      ELSE Result("import", cs, tokenFile, NoToken, FALSE, sv[2], TRUE)
    /\ UNCHANGED <<now, cfg, configFile, tvars, lvars, dvars, bvars, xvars>>

\* Service.GetToken(): <<token, err, fault>>; os.ReadFile can fail on a file
\* that exists
GetToken ==
    IF tokenFile.kind = "absent"
      THEN {<<NoToken, "not authenticated", FALSE>>}
      ELSE {<<Unmarshal(tokenFile)[1], Unmarshal(tokenFile)[2], FALSE>>,
            <<NoToken, "read error", TRUE>>}

\* Service.IsAuthenticated(), as called by app.Run to skip the login screen
IsAuthenticated ==
    /\ \E g \in GetToken :
         ares' = Result("IsAuthenticated", <<>>, tokenFile, g[1], g[2] = "nil", g[2], g[3])
    /\ UNCHANGED <<now, tokenFile, svars, tvars, lvars, dvars, bvars, xvars>>

\* the clock advances
Tick ==
    /\ now < MaxClock
    /\ now' = now + 1
    /\ UNCHANGED <<tokenFile, ares, svars, tvars, lvars, dvars, bvars, xvars>>

\* the credentials a caller passes to Authenticate
Usernames == {"", "user1"}
Passwords == {"", "pw1"}

\* config.Config, of which Save writes username and password
Config(u, p) == [username |-> u, password |-> p]

\* content of ~/.config/goreilly/config.yaml
NoConfigFile == [kind |-> "absent", username |-> "", password |-> ""]
Yaml(c) == [kind |-> "yaml", username |-> c.username, password |-> c.password]

\* the configuration files a process can find at start: none, or one written
\* by an earlier run or by the user, with or without a password key
StoredConfigFiles == {NoConfigFile, Yaml(Config("user0", "")), Yaml(Config("user0", "stored"))}

\* config.Load(): the defaults overlaid with the keys of the file
Load(f) == Config(f.username, f.password)

\* the assignment Authenticate makes to s.config before saving it, with the
\* password assigned as well
SetCredentials(c, username, password) == Config(username, password)

\* s.config.Username = username
SetUsername(c, username, password) == [c EXCEPT !.username = username]

\* Config.Save(): what config.yaml holds afterwards and the error returned;
\* UserHomeDir and MkdirAll can fail before the file is touched
ConfigSave(c) == {<<Yaml(c), "nil">>, <<configFile, "config error">>}

\* 3600 seconds, the ExpiresIn of every LoginResponse, in ticks of the clock
LoginExpiresIn == 2

\* what Service.Login(ctx, email, password) returns to Authenticate
LoginResponse(at, e) ==
    [accessToken |-> at, tokenType |-> IF e = "nil" THEN "Bearer" ELSE "",
     expiresIn |-> IF e = "nil" THEN LoginExpiresIn ELSE 0, err |-> e]
LoginReturns == {LoginResponse("jwt1", "nil"), LoginResponse("at1", "nil"),
                 LoginResponse("", "login failed")}

\* Service.Authenticate(ctx, username, password)
Authenticate ==
    /\ \E username \in Usernames, password \in Passwords :
         LET Fail(e, failed) ==
                 ares' = Result("Authenticate", <<username, password>>, tokenFile,
                                NoToken, FALSE, e, failed)
         IN  IF username = "" \/ password = ""
               THEN /\ Fail("invalid username or password", FALSE)
                    /\ UNCHANGED <<tokenFile, svars>>
               ELSE \E lr \in LoginReturns :
                      IF lr.err # "nil"
                        THEN /\ Fail("authentication failed", FALSE)
                             /\ UNCHANGED <<tokenFile, svars>>
                        ELSE LET token == Token(lr.accessToken, lr.tokenType, lr.expiresIn,
                                                now + lr.expiresIn)
                             IN  \E sv \in SaveToken(token) :
                                   /\ tokenFile' = sv[1]
                                   /\ tokenMode' = SavedMode(sv)
                                   /\ IF sv[2] # "nil"
                                        THEN /\ Fail("failed to save token", TRUE)
                                             /\ UNCHANGED <<cfg, configFile>>
                                        ELSE /\ cfg' = SetUsername(cfg, username, password)
                                             /\ \E cs \in ConfigSave(SetUsername(cfg, username, password)) :
                                                  /\ configFile' = cs[1]
                                                  /\ IF cs[2] # "nil"
                                                       THEN Fail("failed to save config", TRUE)
                                                       ELSE ares' = Result("Authenticate", <<username, password>>,
                                                                           tokenFile, token, TRUE, "nil", FALSE)
    /\ UNCHANGED <<now, tvars, lvars, dvars, bvars, xvars>>

\* Service.Logout(): os.Stat of the session file, and os.Remove when Stat
\* returned no error; Stat can fail on a file that exists
Logout ==
    /\ \/ \* tokenPath fails
          /\ ares' = Result("Logout", <<>>, tokenFile, NoToken, FALSE, "home error", TRUE)
          /\ UNCHANGED <<tokenFile, tokenMode>>
       \/ \* Stat reports that the file does not exist
          /\ tokenFile.kind = "absent"
          /\ ares' = Result("Logout", <<>>, tokenFile, NoToken, TRUE, "nil", FALSE)
          /\ UNCHANGED <<tokenFile, tokenMode>>
       \/ \* Stat fails for another reason
          /\ tokenFile.kind # "absent"
          /\ ares' = Result("Logout", <<>>, tokenFile, NoToken, TRUE, "nil", TRUE)
          /\ UNCHANGED <<tokenFile, tokenMode>>
       \/ \* Stat succeeds and Remove removes the file
          /\ tokenFile.kind # "absent"
          /\ ares' = Result("Logout", <<>>, tokenFile, NoToken, TRUE, "nil", FALSE)
          /\ tokenFile' = NoFile
          /\ tokenMode' = NoMode
       \/ \* Stat succeeds and Remove fails
          /\ tokenFile.kind # "absent"
          /\ ares' = Result("Logout", <<>>, tokenFile, NoToken, FALSE, "remove error", TRUE)
          /\ UNCHANGED <<tokenFile, tokenMode>>
    /\ UNCHANGED <<now, cfg, configFile, tvars, lvars, dvars, bvars, xvars>>

\* a home directory without session file and without configuration file
AInit ==
    /\ now = 1
    /\ tokenFile = NoFile
    /\ ares = NoResult0
    /\ tokenMode = NoMode
    /\ configFile = NoConfigFile
    /\ cfg = Load(configFile)

\* the session a file left by an earlier run holds
StoredToken == Token("jwt0", "Bearer", LoginExpiresIn, 3)

\* a home directory as a process can find it at start: the session file and
\* the configuration file may exist, the session file with any mode
AInitStored ==
    /\ now = 1
    /\ ares = NoResult0
    /\ \/ tokenFile = NoFile /\ tokenMode = NoMode
       \/ tokenFile = Marshal(StoredToken) /\ tokenMode \in FileModes
    /\ configFile \in StoredConfigFiles
    /\ cfg = Load(configFile)

----------------------------------------------------------------------------
(* Concurrent downloads: several DownloadEPUB calls with the same destPath, *)
(* from the creation of the temp file to the deferred cleanup               *)

Writers == 1 .. NumWriters

\* file ids: 0 is the file the destination held before the calls, w the file
\* call w creates
NoFileId == -1
OldFileId == 0

\* the names os.CreateTemp can draw for the pattern ".goreilly-*.epub"
ConcTmpNames == {<<".goreilly-", w, ".epub">> : w \in Writers}
ConcNames == {EpubPath} \cup ConcTmpNames

\* the body the server sends to call w
BodyOf(w) == <<w, w>>

\* os.CreateTemp opens with O_CREATE|O_EXCL: it succeeds only with a name
\* that no file of the directory has
CandidateNames(dir) == {n \in ConcTmpNames : dir[n] = NoFileId}

Writer(pc, readErrAt, pos, name, handle, res) ==
    [pc |-> pc, readErrAt |-> readErrAt, pos |-> pos, name |-> name,
     handle |-> handle, res |-> res]
IdleWriter == Writer("idle", Complete, 0, <<>>, NoFileId, "pending")

\* call w returns e from a point after the defer was registered
Deferred(w, e) == [writers EXCEPT ![w].pc = "deferred", ![w].res = e]

\* request, status switch, content-type check and MkdirAll of call w: an
\* error returns before any file is created
CwRequest(w) ==
    /\ writers[w].pc = "idle"
    /\ \/ writers' = [writers EXCEPT ![w].pc = "done", ![w].res = "error"]
       \/ \E k \in {Complete} \cup (0 .. Len(BodyOf(w)) - 1) :
            writers' = [writers EXCEPT ![w].pc = "createTemp", ![w].readErrAt = k]
    /\ UNCHANGED <<names, inodes, renames>>
    /\ UNCHANGED <<seqvars, uvars, rvars>>

\* os.CreateTemp and the defer that follows it
CwCreateTemp(w) ==
    /\ writers[w].pc = "createTemp"
    /\ \/ \E n \in CandidateNames(names) :
            LET id == IF names[n] = NoFileId THEN w ELSE names[n]
            IN  /\ names' = [names EXCEPT ![n] = id]
                /\ inodes' = [inodes EXCEPT ![id] = <<>>]
                /\ writers' = [writers EXCEPT ![w].pc = "copy", ![w].name = n, ![w].handle = id]
       \/ /\ writers' = [writers EXCEPT ![w].pc = "done", ![w].res = "error"]
          /\ UNCHANGED <<names, inodes>>
    /\ UNCHANGED renames
    /\ UNCHANGED <<seqvars, uvars, rvars>>

\* one turn of the copy loop: resp.Body.Read, then tmpFile.Write
CwCopy(w) ==
    /\ writers[w].pc = "copy"
    /\ LET me == writers[w]
           limit == IF me.readErrAt = Complete THEN Len(BodyOf(w)) ELSE me.readErrAt
       IN  IF me.pos < limit
             THEN \/ /\ inodes' = [inodes EXCEPT ![me.handle] = Append(@, BodyOf(w)[me.pos + 1])]
                     /\ writers' = [writers EXCEPT ![w].pos = me.pos + 1]
                  \/ /\ writers' = Deferred(w, "error")
                     /\ UNCHANGED inodes
             ELSE /\ writers' = IF me.readErrAt = Complete
                                  THEN [writers EXCEPT ![w].pc = "sync"]
                                  ELSE Deferred(w, "error")
                  /\ UNCHANGED inodes
    /\ UNCHANGED <<names, renames>>
    /\ UNCHANGED <<seqvars, uvars, rvars>>

\* tmpFile.Sync() and tmpFile.Close()
CwSyncClose(w) ==
    /\ writers[w].pc = "sync"
    /\ \/ writers' = [writers EXCEPT ![w].pc = "rename"]
       \/ writers' = Deferred(w, "error")
    /\ UNCHANGED <<names, inodes, renames>>
    /\ UNCHANGED <<seqvars, uvars, rvars>>

\* os.Rename(tmpFile.Name(), destPath): moves the file the name stands for;
\* fails when the name is gone
CwRename(w) ==
    /\ writers[w].pc = "rename"
    /\ \/ /\ names[writers[w].name] # NoFileId
          /\ names' = [names EXCEPT ![EpubPath] = names[writers[w].name],
                                    ![writers[w].name] = NoFileId]
          /\ renames' = Append(renames, w)
          /\ writers' = Deferred(w, "nil")
       \/ /\ writers' = Deferred(w, "error")
          /\ UNCHANGED <<names, renames>>
    /\ UNCHANGED inodes
    /\ UNCHANGED <<seqvars, uvars, rvars>>

\* the deferred function of call w: tmpFile.Close(); os.Remove(tmpFile.Name()),
\* which removes whatever file has that name now
CwDeferred(w) ==
    /\ writers[w].pc = "deferred"
    /\ names' = [names EXCEPT ![writers[w].name] = NoFileId]
    /\ writers' = [writers EXCEPT ![w].pc = "done"]
    /\ UNCHANGED <<inodes, renames>>
    /\ UNCHANGED <<seqvars, uvars, rvars>>

\* no concurrent download runs
CIdle ==
    /\ writers = [w \in Writers |-> [IdleWriter EXCEPT !.pc = "none"]]
    /\ names = [n \in ConcNames |-> NoFileId]
    /\ inodes = [i \in {OldFileId} \cup Writers |-> <<>>]
    /\ renames = <<>>

\* every call is about to start; the destination may hold a file
CInit ==
    /\ writers = [w \in Writers |-> IdleWriter]
    /\ \E old \in {NoFileId, OldFileId} :
         names = [n \in ConcNames |-> IF n = EpubPath THEN old ELSE NoFileId]
    /\ inodes = [i \in {OldFileId} \cup Writers |-> IF i = OldFileId THEN OldData ELSE <<>>]
    /\ renames = <<>>

----------------------------------------------------------------------------
(* The login screen: package tui, App.Update and App.handleAuth; the tea    *)
(* runtime calls Update for one message at a time and runs every command    *)
(* handleAuth returns in a goroutine of its own                             *)

App(current, activeInput, username, password, ufocus, pfocus, e, isLoading, quit) ==
    [current |-> current, activeInput |-> activeInput, username |-> username,
     password |-> password, ufocus |-> ufocus, pfocus |-> pfocus, err |-> e,
     isLoading |-> isLoading, quit |-> quit]

\* NewApp(cfg, authSvc, startMain): the username input has the focus, and the
\* main screen is the first one when startMain is set
NewApp(startMain) ==
    App(IF startMain THEN "main" ELSE "auth", "username", "", "", TRUE, FALSE, "", FALSE, FALSE)

\* App.ForceMain()
ForceMain(a) == [a EXCEPT !.current = "main"]

\* the keys of the model: the two of keys.Quit, keys.Enter, keys.Tab, a letter
QuitKeys == {"q", "ctrl+c"}
Keys == QuitKeys \cup {"enter", "tab", "x"}

\* textinput.Update(tea.KeyMsg): a focused input inserts a letter while
\* there is room; it has no binding for the other keys of the model
InputUpdate(in, k) ==
    IF in.focus /\ k \in {"q", "x"} /\ Len(in.text) < MaxQuery
      THEN [in EXCEPT !.text = Append(@, k)]
      ELSE in

\* the program handles messages: it has not quit, and the login screen shows
Handling == ~ui.quit /\ ui.current = "auth"

\* App.handleAuth(): validates the inputs, then returns the command that
\* calls Authenticate
HandleAuth ==
    IF ui.username = ""
      THEN /\ ui' = [ui EXCEPT !.err = "Email is required", !.isLoading = FALSE, !.ufocus = TRUE]
           /\ UNCHANGED inflight
      ELSE IF ui.password = ""
        THEN /\ ui' = [ui EXCEPT !.err = "Password is required", !.isLoading = FALSE, !.pfocus = TRUE]
             /\ UNCHANGED inflight
        ELSE /\ inflight < MaxLogins
             /\ ui' = [ui EXCEPT !.err = "", !.isLoading = TRUE]
             /\ inflight' = inflight + 1

\* Update(tea.KeyMsg) on the main screen: the search input gets the key, and
\* Enter also runs handleSearch; Update returns before the switch on the key
\* is reached, so that tea.Quit is never its answer there
KeyMain ==
    /\ ~ui.quit
    /\ ui.current = "main"
    /\ \E k \in Keys :
         /\ lastKey' = k
         /\ search' = InputUpdate(search, k)
         /\ IF k = "enter"
              THEN IF search.text = <<>>
                     THEN ui' = [ui EXCEPT !.err = "Please enter a search query.",
                                           !.isLoading = FALSE]
                     ELSE ui' = [ui EXCEPT !.err = "", !.isLoading = TRUE]
              ELSE UNCHANGED ui
    /\ UNCHANGED inflight
    /\ UNCHANGED <<seqvars, cvars, rvars>>

\* Update(searchResultMsg)
SearchReturns ==
    /\ ~ui.quit
    /\ ui.current = "main"
    /\ ui.isLoading
    /\ \/ ui' = [ui EXCEPT !.isLoading = FALSE, !.err = "search error"]
       \/ ui' = [ui EXCEPT !.isLoading = FALSE]
    /\ UNCHANGED <<inflight, lastKey, search>>
    /\ UNCHANGED <<seqvars, cvars, rvars>>

\* Update(tea.KeyMsg) for a key matching keys.Quit
KeyQuit ==
    /\ Handling
    /\ ui' = [ui EXCEPT !.quit = TRUE]
    /\ lastKey' \in QuitKeys
    /\ UNCHANGED <<inflight, search>>
    /\ UNCHANGED <<seqvars, cvars, rvars>>

\* Update(tea.KeyMsg) for a key matching keys.Enter
KeyEnter ==
    /\ Handling
    /\ IF ui.activeInput = "username"
         THEN /\ ui' = [ui EXCEPT !.activeInput = "password"]
              /\ UNCHANGED inflight
         ELSE HandleAuth
    /\ lastKey' = "enter"
    /\ UNCHANGED search
    /\ UNCHANGED <<seqvars, cvars, rvars>>

\* Update(tea.KeyMsg) for a key matching keys.Tab
KeyTab ==
    /\ Handling
    /\ ui' = [ui EXCEPT !.activeInput = IF @ = "username" THEN "password" ELSE "username"]
    /\ lastKey' = "tab"
    /\ UNCHANGED <<inflight, search>>
    /\ UNCHANGED <<seqvars, cvars, rvars>>

\* Update(tea.KeyMsg) for any other key: the active input edits its text;
\* a textinput that has not been given the focus ignores the key
KeyText ==
    /\ Handling
    /\ \/ /\ ui.activeInput = "username"
          /\ ui.ufocus
          /\ \E text \in Usernames : ui' = [ui EXCEPT !.username = text]
       \/ /\ ui.activeInput = "password"
          /\ ui.pfocus
          /\ \E text \in Passwords : ui' = [ui EXCEPT !.password = text]
    /\ lastKey' = "x"
    /\ UNCHANGED <<inflight, search>>
    /\ UNCHANGED <<seqvars, cvars, rvars>>

\* an Authenticate call returns and Update handles the message of its
\* command: authError or *auth.Token
AuthReturns ==
    /\ ~ui.quit
    /\ inflight > 0
    /\ inflight' = inflight - 1
    /\ \/ ui' = [ui EXCEPT !.err = "auth error", !.current = "auth"]
       \/ ui' = [ui EXCEPT !.err = "", !.current = "main", !.quit = TRUE]
    /\ UNCHANGED <<lastKey, search>>
    /\ UNCHANGED <<seqvars, cvars, rvars>>

\* no login screen runs
UIdle ==
    /\ ui = [NewApp(FALSE) EXCEPT !.quit = TRUE]
    /\ inflight = 0
    /\ lastKey = ""
    /\ search = [text |-> <<>>, focus |-> FALSE]

\* the program starts on the login screen, or on the main screen: by
\* NewApp with startMain set, which gives the search input the focus, or by
\* ForceMain
UInit ==
    /\ \E startMain \in BOOLEAN :
         /\ ui \in {NewApp(startMain), ForceMain(NewApp(startMain))}
         /\ search = [text |-> <<>>, focus |-> startMain]
    /\ inflight = 0
    /\ lastKey = ""

----------------------------------------------------------------------------
(* Concurrent callers of one Client (package client): Get and               *)
(* SetDefaultHeader, with every access to a field of the Client or of its   *)
(* RetryPolicy as a step of its own                                         *)

Callers == 1 .. NumCallers

\* MaxRetries, InitialBackoff, MaxBackoff of the policies a Client is made
\* with: DefaultRetryPolicy, and a policy that leaves the backoffs at zero
RacePolicies ==
    {[MaxRetries |-> DefaultMaxRetries, Initial |-> DefaultInitialBackoff, Max |-> DefaultMaxBackoff],
     [MaxRetries |-> DefaultMaxRetries, Initial |-> 0, Max |-> 0]}

Caller(op, pc, att) == [op |-> op, pc |-> pc, attempt |-> att]
IdleCaller == Caller("none", "idle", 0)

At(c, pc) == callers[c].pc = pc
Goto(c, pc) == callers' = [callers EXCEPT ![c].pc = pc]

\* a field access: the field and whether it is a write
Access(field, write) == [field |-> field, write |-> write]

\* the accesses the next step of caller c makes without holding a lock; the
\* rate limiter and the cookie jar lock their own state
Accesses(c) ==
    CASE At(c, "newRequest")   -> {Access("headers", FALSE)}
      [] At(c, "setHeader")    -> {Access("headers", TRUE)}
      [] At(c, "loop")         -> {Access("MaxRetries", FALSE)}
      [] At(c, "readInitial")  -> {Access("InitialBackoff", FALSE)}
      [] At(c, "writeInitial") -> {Access("InitialBackoff", TRUE)}
      [] At(c, "readMax")      -> {Access("MaxBackoff", FALSE)}
      [] At(c, "writeMax")     -> {Access("MaxBackoff", TRUE)}
      [] At(c, "compute")      -> {Access("InitialBackoff", FALSE), Access("MaxBackoff", FALSE)}
      [] OTHER                 -> {}

\* a caller starts Client.Get or Client.SetDefaultHeader
RcCall(c) ==
    /\ At(c, "idle")
    /\ \/ callers' = [callers EXCEPT ![c] = Caller("Get", "newRequest", 0)]
       \/ callers' = [callers EXCEPT ![c] = Caller("SetDefaultHeader", "setHeader", 0)]
    /\ UNCHANGED client
    /\ UNCHANGED <<seqvars, cvars, uvars>>

\* SetDefaultHeader: c.headers[key] = value
RcSetHeader(c) ==
    /\ At(c, "setHeader")
    /\ client' = [client EXCEPT !.headers = @ + 1]
    /\ Goto(c, "done")
    /\ UNCHANGED <<seqvars, cvars, uvars>>

\* newRequest: the loop over c.headers
RcNewRequest(c) ==
    /\ At(c, "newRequest")
    /\ Goto(c, "limiter")
    /\ UNCHANGED client
    /\ UNCHANGED <<seqvars, cvars, uvars>>

\* do: c.rateLimiter.Wait, which returns an error when the context ends
RcLimiterWait(c) ==
    /\ At(c, "limiter")
    /\ \/ Goto(c, "loop")
       \/ Goto(c, "done")
    /\ UNCHANGED client
    /\ UNCHANGED <<seqvars, cvars, uvars>>

\* do: the loop condition attempt <= c.retryPolicy.MaxRetries
RcLoop(c) ==
    /\ At(c, "loop")
    /\ IF callers[c].attempt <= client.policy.MaxRetries THEN Goto(c, "do") ELSE Goto(c, "done")
    /\ UNCHANGED client
    /\ UNCHANGED <<seqvars, cvars, uvars>>

\* do: c.client.Do(req) and the retry decision
RcDo(c) ==
    /\ At(c, "do")
    /\ \/ Goto(c, "done")
       \/ IF callers[c].attempt < client.policy.MaxRetries
            THEN Goto(c, "readInitial")
            ELSE callers' = [callers EXCEPT ![c].pc = "loop", ![c].attempt = @ + 1]
    /\ UNCHANGED client
    /\ UNCHANGED <<seqvars, cvars, uvars>>

\* CalculateBackoff: the test r.InitialBackoff == 0
RcReadInitial(c) ==
    /\ At(c, "readInitial")
    /\ IF client.policy.Initial = 0 THEN Goto(c, "writeInitial") ELSE Goto(c, "readMax")
    /\ UNCHANGED client
    /\ UNCHANGED <<seqvars, cvars, uvars>>

\* CalculateBackoff: r.InitialBackoff = 100 * time.Millisecond
RcWriteInitial(c) ==
    /\ At(c, "writeInitial")
    /\ client' = [client EXCEPT !.policy.Initial = DefaultInitialBackoff]
    /\ Goto(c, "readMax")
    /\ UNCHANGED <<seqvars, cvars, uvars>>

\* CalculateBackoff: the test r.MaxBackoff == 0
RcReadMax(c) ==
    /\ At(c, "readMax")
    /\ IF client.policy.Max = 0 THEN Goto(c, "writeMax") ELSE Goto(c, "compute")
    /\ UNCHANGED client
    /\ UNCHANGED <<seqvars, cvars, uvars>>

\* CalculateBackoff: r.MaxBackoff = 5 * time.Second
RcWriteMax(c) ==
    /\ At(c, "writeMax")
    /\ client' = [client EXCEPT !.policy.Max = DefaultMaxBackoff]
    /\ Goto(c, "compute")
    /\ UNCHANGED <<seqvars, cvars, uvars>>

\* CalculateBackoff: the delay computed from r.InitialBackoff and r.MaxBackoff
RcCompute(c) ==
    /\ At(c, "compute")
    /\ Goto(c, "sleep")
    /\ UNCHANGED client
    /\ UNCHANGED <<seqvars, cvars, uvars>>

\* do: the select on time.After(backoff) and the context, then attempt++
RcSleep(c) ==
    /\ At(c, "sleep")
    /\ \/ callers' = [callers EXCEPT ![c].pc = "loop", ![c].attempt = @ + 1]
       \/ Goto(c, "done")
    /\ UNCHANGED client
    /\ UNCHANGED <<seqvars, cvars, uvars>>

\* no caller uses the Client
RIdle ==
    /\ callers = [c \in Callers |-> Caller("none", "none", 0)]
    /\ client = [headers |-> 0, policy |-> [MaxRetries |-> 0, Initial |-> 0, Max |-> 0]]

\* a Client as NewWithHTTPClient returns it, shared by callers about to start
RInit ==
    /\ callers = [c \in Callers |-> IdleCaller]
    /\ \E pl \in RacePolicies : client = [headers |-> 0, policy |-> pl]

----------------------------------------------------------------------------
(* The anti-forgery token extractors of the form-based login flows, and the *)
(* verification probe, each as one call on a given response                 *)

FReturn(token, e) == [token |-> token, err |-> e]
FPending == FReturn("", "pending")

\* strings.TrimSpace on the values of the model
TrimSpace(v) == IF v = " " THEN "" ELSE v

\* the places of a login page response that can carry the token: the
\* csrftoken cookie; the csrfmiddlewaretoken input written name first or
\* value first; the csrf-token meta tag; window.csrfToken; "csrfToken":;
\* the csrfmiddlewaretoken meta tag; another input whose name contains csrf
PageFields == {"cookie", "input", "inputRev", "meta", "script", "json", "metaMw", "otherInput"}

\* the value a place carries: "" when the page does not have it
PageValues(f) ==
    IF f \in {"input", "inputRev", "otherInput"} THEN {"", " ", "tokA", "tokB"}
    ELSE {"", "tokA", "tokB"}
Pages == {pg \in [PageFields -> {"", " ", "tokA", "tokB"}] : \A f \in PageFields : pg[f] \in PageValues(f)}

\* the first element of the sequence places whose value v satisfies
\* Trim(v) # "" when trim is set, v # "" otherwise; 0 if there is none
FirstMatch(pg, places, trim) ==
    LET hits == {i \in 1 .. Len(places) : IF trim THEN TrimSpace(pg[places[i]]) # "" ELSE pg[places[i]] # ""}
    IN  IF hits = {} THEN 0 ELSE CHOOSE i \in hits : \A k \in hits : i <= k

\* getCSRFToken of the cookie-or-form flow: the csrftoken cookie, else the
\* csrfmiddlewaretoken input written name first
GetCSRFToken(pg) ==
    LET order == <<"cookie", "input">>
        hit == FirstMatch(pg, order, FALSE)
    IN  IF hit = 0 THEN FReturn("", "csrfmiddlewaretoken not found") ELSE FReturn(pg[order[hit]], "nil")

\* the patterns of extractCSRFToken, in the order of its list
Patterns == <<"input", "inputRev", "meta", "script", "json", "metaMw">>

\* extractCSRFToken(body): the patterns in order, skipping blank matches;
\* then any input with csrf in its name, written name first; then any
\* hidden input with csrf in its name. The last two return the trimmed
\* value without testing it
ExtractCSRFToken(pg) ==
    LET first == FirstMatch(pg, Patterns, TRUE)
        named == <<"input", "otherInput">>
        second == FirstMatch(pg, named, FALSE)
        hidden == <<"input", "inputRev", "otherInput">>
        third == FirstMatch(pg, hidden, FALSE)
    IN  IF first # 0 THEN FReturn(TrimSpace(pg[Patterns[first]]), "nil")
        ELSE IF second # 0 THEN FReturn(TrimSpace(pg[named[second]]), "nil")
        ELSE IF third # 0 THEN FReturn(TrimSpace(pg[hidden[third]]), "nil")
        ELSE FReturn("", "CSRF token not found in response")

\* a call of one of the two extractors on the login page the server sent
ExtractorCall ==
    /\ fcall.fn \in {"getCSRFToken", "extractCSRFToken"}
    /\ fret = FPending
    /\ fret' = IF fcall.fn = "getCSRFToken" THEN GetCSRFToken(fcall.input)
               ELSE ExtractCSRFToken(fcall.input)
    /\ UNCHANGED fcall
    /\ UNCHANGED <<tvars, lvars, dvars, bvars, avars, cvars, uvars, rvars>>

\* what the probe of verifyLogin gets: s.client.Get fails, or reading the
\* body fails, or a response whose body holds "user_type":"Expired" and/or
\* "signin" or neither
ProbeStatuses == {200, 302, 399, 400, 403, 500}
Probe(getErr, readErr, status, expired, signin) ==
    [getErr |-> getErr, readErr |-> readErr, status |-> status,
     expired |-> expired, signin |-> signin]
Probes == {Probe(g, r, st, e, si) : g \in BOOLEAN, r \in BOOLEAN, st \in ProbeStatuses,
                                    e \in BOOLEAN, si \in BOOLEAN}

ErrExpired == "account subscription has expired"
ErrNotSignedIn == "login failed: you are not signed in"
ErrVerification == "login verification failed with status"

\* the switch of verifyLogin with the sign-in test before the expiry test
VerifyLoginSigninFirst(pr) ==
    IF pr.getErr THEN FReturn("", "failed to verify login")
    ELSE IF pr.readErr THEN FReturn("", "failed to read profile page")
    ELSE IF pr.signin THEN FReturn("", ErrNotSignedIn)
    ELSE IF pr.expired THEN FReturn("", ErrExpired)
    ELSE IF pr.status >= 400 THEN FReturn("", ErrVerification)
    ELSE FReturn("", "nil")

\* Service.verifyLogin(ctx)
VerifyLogin(pr) ==
    IF pr.getErr THEN FReturn("", "failed to verify login")
    ELSE IF pr.readErr THEN FReturn("", "failed to read profile page")
    ELSE IF pr.expired THEN FReturn("", ErrExpired)
    ELSE IF pr.signin THEN FReturn("", ErrNotSignedIn)
    ELSE IF pr.status >= 400 THEN FReturn("", ErrVerification)
    ELSE FReturn("", "nil")

\* a call of verifyLogin
VerifyLoginCall ==
    /\ fcall.fn = "verifyLogin"
    /\ fret = FPending
    /\ fret' = VerifyLogin(fcall.input)
    /\ UNCHANGED fcall
    /\ UNCHANGED <<tvars, lvars, dvars, bvars, avars, cvars, uvars, rvars>>

\* no such call is made
FIdle ==
    /\ fcall = [fn |-> "none", input |-> <<>>]
    /\ fret = FPending

\* the models of concurrent callers and of single calls at rest
XInit == CIdle /\ UIdle /\ RIdle /\ FIdle

----------------------------------------------------------------------------
(* Specifications *)

InitTransport ==
    /\ TInit({"do", "doWithRetry"}, Policies)
    /\ LInit("none")
    /\ DInit("none", {"nil"})
    /\ BInit({"none"})
    /\ AInit
    /\ XInit

NextTransport ==
    \/ TCall
    \/ DoLimiterWait
    \/ DoAttempt
    \/ DoBackoffElapsed
    \/ DoBackoffCancelled
    \/ DoExhausted
    \/ RetryLimiterWait
    \/ RetryAttempt
    \/ RetrySleep
    \/ RetryExhausted
    \/ CancelCtx

SpecTransport == InitTransport /\ [][NextTransport]_vars

InitLogin ==
    /\ TInit({"do"}, {DefaultRetryPolicy})
    /\ LInit("start")
    /\ DInit("none", {"nil"})
    /\ BInit({"none"})
    /\ AInit
    /\ XInit

NextLogin ==
    \/ LoginGetPage
    \/ LoginPost
    \/ DoLimiterWait
    \/ DoAttempt
    \/ DoBackoffElapsed
    \/ DoBackoffCancelled
    \/ DoExhausted
    \/ LoginPostReturned
    \/ LoginFinalize
    \/ LoginResolve
    \/ CancelCtx

SpecLogin == InitLogin /\ [][NextLogin]_vars

InitDownload ==
    /\ TInit({"do"}, {DefaultRetryPolicy})
    /\ LInit("none")
    /\ DInit("request", {"nil"})
    /\ BInit({"none"})
    /\ AInit
    /\ XInit

NextDownload ==
    \/ DlRequest
    \/ DlStatus
    \/ DlContentType
    \/ DlMkdirAll
    \/ DlCreateTemp
    \/ DlCopy
    \/ DlSync
    \/ DlClose
    \/ DlRename
    \/ DlDeferred
    \/ DlReturn

SpecDownload == InitDownload /\ [][NextDownload]_vars

\* downloads into an existing, empty directory by callers that may pass a
\* progress callback
InitProgress ==
    /\ TInit({"do"}, {DefaultRetryPolicy})
    /\ LInit("none")
    /\ DInit("request", {"nil", "fn"})
    /\ BInit({"none"})
    /\ AInit
    /\ XInit
    /\ args = Args("tok", "slug", EpubPath)
    /\ dirExists
    /\ \A p \in AllPaths : ~fs[p].exists

SpecProgress == InitProgress /\ [][NextDownload]_vars

InitBackoff ==
    /\ TInit({"do"}, {DefaultRetryPolicy})
    /\ LInit("none")
    /\ DInit("none", {"nil"})
    /\ BInit({"CalculateBackoff", "calculateBackoff"})
    /\ AInit
    /\ XInit

NextBackoff ==
    \/ RetryPolicyBackoff
    \/ ClientBackoff

SpecBackoff == InitBackoff /\ [][NextBackoff]_vars

InitAuth ==
    /\ TInit({"do"}, {DefaultRetryPolicy})
    /\ LInit("none")
    /\ DInit("none", {"nil"})
    /\ BInit({"none"})
    /\ AInit
    /\ XInit

NextAuth ==
    \/ TokenFromCookieFile
    \/ IsAuthenticated
    \/ Tick

SpecAuth == InitAuth /\ [][NextAuth]_vars

\* login and logout on a home directory that may hold files of earlier runs
InitSession ==
    /\ TInit({"do"}, {DefaultRetryPolicy})
    /\ LInit("none")
    /\ DInit("none", {"nil"})
    /\ BInit({"none"})
    /\ AInitStored
    /\ XInit

NextSession ==
    \/ Authenticate
    \/ Logout
    \/ IsAuthenticated
    \/ Tick

SpecSession == InitSession /\ [][NextSession]_vars

\* concurrent downloads to one destination path
InitConcurrent ==
    /\ TInit({"do"}, {DefaultRetryPolicy})
    /\ LInit("none")
    /\ DInit("none", {"nil"})
    /\ BInit({"none"})
    /\ AInit
    /\ CInit
    /\ UIdle
    /\ RIdle
    /\ FIdle

NextConcurrent ==
    \E w \in Writers :
        \/ CwRequest(w)
        \/ CwCreateTemp(w)
        \/ CwCopy(w)
        \/ CwSyncClose(w)
        \/ CwRename(w)
        \/ CwDeferred(w)

SpecConcurrent == InitConcurrent /\ [][NextConcurrent]_vars

\* the login screen, as app.Run starts it when no session is stored
InitTui ==
    /\ TInit({"do"}, {DefaultRetryPolicy})
    /\ LInit("none")
    /\ DInit("none", {"nil"})
    /\ BInit({"none"})
    /\ AInit
    /\ CIdle
    /\ UInit
    /\ RIdle
    /\ FIdle

NextTui ==
    \/ KeyMain
    \/ SearchReturns
    \/ KeyQuit
    \/ KeyEnter
    \/ KeyTab
    \/ KeyText
    \/ AuthReturns

SpecTui == InitTui /\ [][NextTui]_vars

\* concurrent callers of one Client
InitRace ==
    /\ TInit({"do"}, {DefaultRetryPolicy})
    /\ LInit("none")
    /\ DInit("none", {"nil"})
    /\ BInit({"none"})
    /\ AInit
    /\ CIdle
    /\ UIdle
    /\ RInit
    /\ FIdle

NextRace ==
    \E c \in Callers :
        \/ RcCall(c)
        \/ RcSetHeader(c)
        \/ RcNewRequest(c)
        \/ RcLimiterWait(c)
        \/ RcLoop(c)
        \/ RcDo(c)
        \/ RcReadInitial(c)
        \/ RcWriteInitial(c)
        \/ RcReadMax(c)
        \/ RcWriteMax(c)
        \/ RcCompute(c)
        \/ RcSleep(c)

SpecRace == InitRace /\ [][NextRace]_vars

\* the token extractors on every login page of the model
InitCsrf ==
    /\ TInit({"do"}, {DefaultRetryPolicy})
    /\ LInit("none")
    /\ DInit("none", {"nil"})
    /\ BInit({"none"})
    /\ AInit
    /\ CIdle
    /\ UIdle
    /\ RIdle
    /\ fcall \in {[fn |-> f, input |-> pg] : f \in {"getCSRFToken", "extractCSRFToken"}, pg \in Pages}
    /\ fret = FPending

NextCsrf == ExtractorCall

SpecCsrf == InitCsrf /\ [][NextCsrf]_vars

\* the verification probe on every response of the model
InitVerify ==
    /\ TInit({"do"}, {DefaultRetryPolicy})
    /\ LInit("none")
    /\ DInit("none", {"nil"})
    /\ BInit({"none"})
    /\ AInit
    /\ CIdle
    /\ UIdle
    /\ RIdle
    /\ fcall \in {[fn |-> "verifyLogin", input |-> pr] : pr \in Probes}
    /\ fret = FPending

NextVerify == VerifyLoginCall

SpecVerify == InitVerify /\ [][NextVerify]_vars

Spec == SpecDownload


----------------------------------------------------------------------------
(* Properties of the downloader (SpecDownload) *)

DestFiles == AllPaths \ TmpNames

\* the candidate the last request was issued for
LastCand == IF dreq = <<>> THEN entry ELSE dreq[Len(dreq)].cand

\* the last response is a 200 of the content type expected of its candidate
Streamable == dresp.status = 200 /\ HasPrefix(dresp.ctype, ExpectedPrefix(LastCand))

\* the path the function that issued the last request writes to
StreamDest ==
    IF LastCand # entry
      THEN PdfDest(args.destPath)
      ELSE args.destPath

Untouched(p) == fs[p] = fs0[p]

\* C1: during and after a DownloadEPUB/DownloadPDF call every destination
\* path is either as it was before the call or holds the complete response
\* body, and when the call returns an error every destination path is exactly
\* as it was before the call.
C1_DestinationAtomic ==
    /\ \A p \in DestFiles :
         \/ Untouched(p)
         \/ /\ p = StreamDest
            /\ dresp.readErrAt = Complete
            /\ fs[p] = File(dresp.body)
    /\ (dpc = "done" /\ dres # DNil) => \A p \in DestFiles : Untouched(p)

\* a late failure: the temp file was fully written, the rename failed, and the
\* previous content of the destination is still there
C1_Witness ==
    /\ dpc = "done"
    /\ dres.kind = "rename"
    /\ Len(dresp.body) = 2
    /\ fs0[StreamDest] = File(OldData)
    /\ fs[StreamDest] = File(OldData)

\* C2: when the body stops after K bytes (Read fails after K bytes), the
\* download returns an error, the destination is left without a file (as
\* before the call), and the temp file is gone; the rename step is reached
\* only with the whole body read and written to the temp file.
C2_TruncatedBodyLeavesNothing ==
    /\ (dpc = "done" /\ Streamable /\ dresp.readErrAt # Complete) =>
         /\ dres # DNil
         /\ Untouched(StreamDest)
         /\ (~fs0[StreamDest].exists => ~fs[StreamDest].exists)
         /\ \A t \in TmpNames : ~fs[t].exists
    /\ dpc = "rename" =>
         /\ dresp.readErrAt = Complete
         /\ rpos = Len(dresp.body)
         /\ fs[tmp] = File(dresp.body)

\* a 3-byte body cut after 1 byte that was read and written, download over
C2_Witness ==
    /\ dpc = "done"
    /\ Streamable
    /\ Len(dresp.body) = 3
    /\ dresp.readErrAt = 1
    /\ rpos = 1
    /\ dres.kind = "read body"
    /\ ~fs[StreamDest].exists

\* the destination with its .epub suffix replaced by .pdf
DerivedPath ==
    IF args.destPath = EpubPath THEN <<"book", ".pdf">> ELSE args.destPath \o <<".pdf">>

PdfRequests == {i \in 1 .. Len(dreq) : dreq[i].cand = "pdf"}

C10_RoundTrip ==
    (dpc = "done" /\ Streamable /\ dresp.readErrAt = Complete /\ fault = "none") =>
        /\ dres = DNil
        /\ fs[StreamDest] = File(dresp.body)

\* a body longer than the buffer, so it took several reads
C10_Witness ==
    /\ dpc = "done"
    /\ dres = DNil
    /\ Len(dresp.body) = 3
    /\ fs[StreamDest] = File(dresp.body)
    /\ fs0[StreamDest] = File(OldData)


----------------------------------------------------------------------------
(* Properties of the transport (SpecTransport) *)

AttemptsMade == Len(outcomes)

\* the first k attempts all ended in a transport error
AllFailed(k) == \A i \in 1 .. k : outcomes[i] = NetFail

\* C3: with maxRetries >= 0 and no cancellation, a call whose attempts fail N
\* times and then succeed returns that response, and N <= maxRetries; a call
\* all of whose attempts fail returns an error after exactly maxRetries + 1
\* attempts; an attempt count carried by the error is the number of attempts
\* made; never more than maxRetries + 1 attempts are made.
C3_RetryBudget ==
    /\ policy.MaxRetries >= 0 => AttemptsMade <= policy.MaxRetries + 1
    /\ (tpc = "done" /\ policy.MaxRetries >= 0 /\ ~ctxCancelled) =>
         /\ AttemptsMade >= 1
         /\ (AllFailed(AttemptsMade - 1) /\ outcomes[AttemptsMade] = Answer(200)) =>
               /\ tres = Return(200, NoErr)
               /\ AttemptsMade - 1 <= policy.MaxRetries
         /\ AllFailed(AttemptsMade) =>
               /\ tres.resp = NilResp
               /\ tres.err # NoErr
               /\ AttemptsMade = policy.MaxRetries + 1
    /\ (tpc = "done" /\ tres.err.kind = "request failed after attempts") =>
         tres.err.count = AttemptsMade

\* Client.do with maxRetries = 2: three failed attempts, error reporting 3
C3_Witness ==
    /\ tpc = "done"
    /\ impl = "do"
    /\ policy.MaxRetries = 2
    /\ outcomes = <<NetFail, NetFail, NetFail>>
    /\ tres.err = Wrapped("request failed after attempts", 3)

FiveHundreds == 500 .. 599

\* an answer that ends the call: it is the last attempt and it is what the caller gets
Terminal(i) ==
    /\ i = AttemptsMade
    /\ tpc = "done"
    /\ tres = Return(outcomes[i].status, NoErr)

\* C4 as stated: under the default policy the retryable set is the whole 5xx
\* family, so another attempt follows only a transport error or a 5xx answer,
\* every answer below 500 is terminal, and a 5xx answer reaches the caller
\* only once the attempts are used up.
C4_Original ==
    (impl = "do" /\ policy = DefaultRetryPolicy) =>
        /\ \A i \in 1 .. AttemptsMade - 1 :
             outcomes[i].err # NoErr \/ outcomes[i].status \in FiveHundreds
        /\ \A i \in 1 .. AttemptsMade :
             (outcomes[i].err = NoErr /\ outcomes[i].status < 500) => Terminal(i)
        /\ (tpc = "done" /\ tres.err = NoErr /\ tres.resp \in FiveHundreds) =>
             AttemptsMade = policy.MaxRetries + 1

\* C4 (amended): another attempt follows only a transport error or an answer
\* whose status the policy lists, by default {500, 502, 503, 504}; under the
\* default policy every 4xx, every successful status and every unlisted 5xx
\* status (501) given to Client.do is terminal and returned after that attempt.
C4_RetryOnlyListedStatuses ==
    /\ \A i \in 1 .. AttemptsMade - 1 :
         \/ outcomes[i].err # NoErr
         \/ impl = "do" /\ outcomes[i].status \in policy.Codes
    /\ policy = DefaultRetryPolicy =>
         /\ \A i \in 1 .. AttemptsMade - 1 :
              outcomes[i].err # NoErr \/ outcomes[i].status \in {500, 502, 503, 504}
         /\ \A i \in 1 .. AttemptsMade :
              (outcomes[i].err = NoErr /\ outcomes[i].status < 500) => Terminal(i)
         /\ \A i \in 1 .. AttemptsMade :
              (impl = "do" /\ outcomes[i].status = 501) => Terminal(i)

\* a 501 answered to Client.do under the default policy ends the call at once
C4_Witness ==
    /\ impl = "do"
    /\ policy = DefaultRetryPolicy
    /\ outcomes = <<Answer(503), Answer(501)>>
    /\ Terminal(2)

----------------------------------------------------------------------------
(* Properties of the login flow (SpecLogin) *)

Posts == {i \in 1 .. Len(sent) : sent[i] = "POST"}

\* C5: the credential POST reaches the server at most once in a Login call,
\* and a submission that failed makes Login return an error.
C5_Original ==
    /\ Cardinality(Posts) <= 1
    /\ (lpc = "done" /\ outcomes # <<>> /\ outcomes[1] # Answer(200)) => lres.err # "nil"

LoginFlow == <<"GET login", "POST", "GET finalize">>

IsPrefix(a, b) == Len(a) <= Len(b) /\ SubSeq(b, 1, Len(a)) = a

\* C6: the requests of a Login call are, in order, the login-page GET, the
\* credential POST and one finalization GET; once a step has failed no later
\* request is issued and Login returns an error without a token.
C6_Original ==
    /\ IsPrefix(sent, LoginFlow)
    /\ \A i \in 1 .. Len(outcomes) : outcomes[i] # Answer(200) => i = Len(outcomes)
    /\ (lpc = "done" /\ \E i \in 1 .. Len(outcomes) : outcomes[i] # Answer(200)) =>
         lres.err # "nil"
    /\ (lpc = "done" /\ lres.err # "nil") => lres.token = ""

\* values of the orm-jwt cookies the jar returns for the learning URL
JarHasCookie == jar.learning # <<>> \/ jar.other

\* C7 as stated: the token of a successful Login is the value of the orm-jwt
\* cookie whenever the jar holds one, else the access token; it is not empty.
C7_Original ==
    (lpc = "done" /\ lres.err = "nil") =>
        /\ lres.token # ""
        /\ IF JarHasCookie
             THEN jar.learning # <<>> /\ lres.token \in {jar.learning[i] : i \in 1 .. Len(jar.learning)}
             ELSE lres.token = postBody.accessToken

\* C7 (amended): the token of a successful Login is the value of the first
\* orm-jwt cookie the jar returns for https://learning.oreilly.com when that
\* value is not empty, else the access token of the credential submission; it
\* is not empty.
C7_TokenPriority ==
    (lpc = "done" /\ lres.err = "nil") =>
        /\ lres.token # ""
        /\ IF jar.learning # <<>> /\ jar.learning[1] # ""
             THEN lres.token = jar.learning[1]
             ELSE lres.token = postBody.accessToken

\* both sources present: the cookie wins
C7_Witness ==
    /\ lpc = "done"
    /\ lres.err = "nil"
    /\ jar.learning = <<"jwt1">>
    /\ postBody.accessToken = "at1"
    /\ lres.token = "jwt1"

----------------------------------------------------------------------------
(* Properties of progress reporting (SpecProgress) *)

LastEmitted == emitted[Len(emitted)]

\* the callback was handed exactly 100
IsHundred(pc) == pc.num = 100 * pc.den

\* the call returned nil and a callback was passed
ReportedDownload == dpc = "done" /\ dres = DNil /\ progress = "fn"

\* C11: with a declared total size and a callback, every successful download
\* ends with a last callback invocation of exactly 100 percent, however the
\* body was split into reads and whatever time passed between them.
C11_Original ==
    (ReportedDownload /\ dresp.contentLen # UnknownLength) =>
        /\ emitted # <<>>
        /\ IsHundred(LastEmitted.percent)

\* C12: the callback is never invoked when no callback was passed or when the
\* total size is unknown, and a complete body is still committed with a nil
\* error in those cases.
C12_SilentWithoutTotal ==
    (progress = "nil" \/ dresp.contentLen = UnknownLength) =>
        /\ emitted = <<>>
        /\ (dpc = "done" /\ Streamable /\ dresp.readErrAt = Complete /\ fault = "none") =>
              /\ dres = DNil
              /\ fs[StreamDest] = File(dresp.body)

\* a callback was passed and three bytes of unknown total were streamed
C12_Witness ==
    /\ ReportedDownload
    /\ dresp.contentLen = UnknownLength
    /\ Len(dresp.body) = 3
    /\ fs[StreamDest] = File(dresp.body)
    /\ emitted = <<>>

----------------------------------------------------------------------------
(* Properties of the backoff computation (SpecBackoff) *)

\* C13: for a policy with initial backoff <= max backoff and an attempt index
\* >= 0, the delay computed between two attempts, jitter included, is at most
\* the max backoff of the policy.
C13_Original ==
    (blast.made /\ ~blast.panic) => blast.delay <= bpolicy.Max

\* C14: before clamping and for a fixed random draw, the delay of an attempt
\* index is not negative and not smaller than the delay of the index before it.
C14_Original ==
    /\ (blast.made /\ ~blast.panic) => blast.pre >= 0
    /\ (bprev.made /\ ~blast.panic /\ (bimpl = "CalculateBackoff" => bprev.draw = blast.draw)) =>
          blast.pre >= bprev.pre

----------------------------------------------------------------------------
(* Properties of rate limiting, cancellation and request bodies
   (SpecTransport, SpecLogin) *)

\* C15: every client.Do of an execute call is preceded by a limiter admission
\* of its own: no more attempts than admissions at any time, and as many
\* admissions as attempts when an uncancelled call has returned.
C15_Original ==
    /\ Len(outcomes) <= admitted
    /\ (tpc = "done" /\ ~ctxCancelled /\ policy.MaxRetries >= 0) => admitted = Len(outcomes)

\* the error the call returned is the context error or wraps it
ReturnsContextErr ==
    \/ tres.err.kind \in {"context", "rate limiter error"}
    \/ /\ tres.err.kind = "request failed after attempts"
       /\ outcomes # <<>>
       /\ outcomes[Len(outcomes)] = CtxFail

\* C16: a Get/Post call whose context was cancelled while the call waited on
\* the limiter or in a backoff returns the context error, and no request
\* reaches the network after the cancellation.
C16_Original ==
    (tpc = "done" /\ cancelledAt.where \in {"limiter", "backoff"}) =>
        /\ ReturnsContextErr
        /\ Len(sent) = cancelledAt.sent

\* C17: at the start of every attempt the request holds its whole body.
C17_Original ==
    \A i \in 1 .. Len(offered) : offered[i] = RequestBody(req)

\* C18: every request of the login flow that reached the network was admitted
\* by the limiter of the Client first, one admission per request.
C18_Original ==
    Len(sent) <= admitted

----------------------------------------------------------------------------
(* Properties of the session store (SpecAuth) *)

\* TokenFromCookieFile ran last, and no file system call failed under it
Imported == ares.op = "import" /\ ~ares.fault

NamedCookies(cs) == {i \in 1 .. Len(cs) : cs[i].name = SessionCookie}

\* the expiry a session built from cookie c at time t carries
ExpiryOf(c, t) == IF c.expires = ZeroTime THEN t + Hour ELSE c.expires

\* C19 as stated: importing a cookie set that contains a cookie named orm-jwt
\* returns and persists a session with that cookie's value and its expiry (or
\* the time of the call plus one hour); without such a cookie the import
\* returns the invalid-token error and the session file is left as it was.
C19_Original ==
    Imported =>
        IF NamedCookies(ares.input) # {}
          THEN /\ ares.ok
               /\ \E i \in NamedCookies(ares.input) :
                    /\ ares.token.accessToken = ares.input[i].value
                    /\ ares.token.expiresAt = ExpiryOf(ares.input[i], ares.at)
               /\ tokenFile = Marshal(ares.token)
          ELSE /\ ares.err = "invalid token"
               /\ tokenFile = ares.before

\* the first cookie of the set that is named orm-jwt
SessionCookieOf(cs) ==
    cs[CHOOSE i \in NamedCookies(cs) : \A k \in 1 .. i - 1 : cs[k].name # SessionCookie]

\* C19 (amended): when the first cookie named orm-jwt of the set has a
\* non-empty value, the import returns and persists a session with that value
\* and that cookie's expiry (or the time of the call plus one hour when it has
\* none); when there is no such cookie or its value is empty, the import
\* returns the invalid-token error and the session file is left as it was.
C19_ImportSession ==
    Imported =>
        IF NamedCookies(ares.input) # {} /\ SessionCookieOf(ares.input).value # ""
          THEN /\ ares.ok
               /\ ares.token.accessToken = SessionCookieOf(ares.input).value
               /\ ares.token.expiresAt = ExpiryOf(SessionCookieOf(ares.input), ares.at)
               /\ tokenFile = Marshal(ares.token)
          ELSE /\ ~ares.ok
               /\ ares.err = "invalid token"
               /\ tokenFile = ares.before

\* a session cookie without expiry, behind another cookie, imported at time 2
C19_Witness ==
    /\ Imported
    /\ ares.input = <<Cookie("sid", "jwt1", 2), Cookie(SessionCookie, "jwt1", ZeroTime)>>
    /\ ares.at = 2
    /\ ares.ok
    /\ ares.token.expiresAt = 2 + Hour
    /\ tokenFile = Marshal(ares.token)

\* C20: IsAuthenticated on a persisted session with expiry T answers true at
\* every clock time before T and false at every clock time after T.
C20_Original ==
    (ares.op = "IsAuthenticated" /\ ares.at = now /\ ~ares.fault /\ tokenFile.kind = "json") =>
        /\ now < tokenFile.token.expiresAt => ares.ok
        /\ now > tokenFile.token.expiresAt => ~ares.ok

----------------------------------------------------------------------------
(* Properties of the session store: issue and persistence (SpecAuth, SpecSession) *)

\* the last operation issued a session: Authenticate or TokenFromCookieFile
\* returned a token and no error, after saving it
Issued == ares.ok /\ ares.op \in {"Authenticate", "import"}

\* C21 (as stated): every session that Authenticate or TokenFromCookieFile
\* returns as a success and persists has a non-empty token and an expiresAt
\* strictly later than the time at which it was issued.
C21_Original ==
    Issued =>
        /\ tokenFile = Marshal(ares.token)
        /\ ares.token.accessToken # ""
        /\ ares.token.expiresAt > ares.at

\* the non-empty passwords callers pass to Authenticate; the model keeps them
\* apart from every string that has another origin
TypedPasswords == Passwords \ {""}

\* every string held by the session file or by the configuration file
PersistedStrings ==
    {tokenFile.token.accessToken, tokenFile.token.tokenType,
     configFile.username, configFile.password}

\* C22: after any sequence of Authenticate calls, successful or failed, the
\* password passed to Authenticate is in neither the session file nor the
\* saved configuration; of the credentials only the username is written: a
\* successful Authenticate leaves its username in the configuration file,
\* and the password key of that file is the one the configuration was loaded with.
C22_PasswordNotPersisted ==
    /\ PersistedStrings \cap TypedPasswords = {}
    /\ configFile.kind = "yaml" => configFile.password = cfg.password
    /\ ares.op = "Authenticate" /\ ares.ok =>
           /\ configFile.kind = "yaml"
           /\ configFile.username = ares.input[1]

\* a successful Authenticate with a password, after which both files are written
C22_Witness ==
    /\ ares.op = "Authenticate"
    /\ ares.ok
    /\ ares.input[2] \in TypedPasswords
    /\ tokenFile = Marshal(ares.token)
    /\ configFile = Yaml(Config(ares.input[1], cfg.password))
    /\ ares.before # NoFile

----------------------------------------------------------------------------
(* Properties of concurrent downloads (SpecConcurrent) *)

\* the calls that hold an open temp file
Writing == {w \in Writers : writers[w].pc \in {"copy", "sync"}}

AllReturned == \A w \in Writers : writers[w].pc = "done"
Succeeded == {w \in Writers : writers[w].res = "nil"}

\* the bytes the destination holds, <<>> when it has no file
DestData == IF names[EpubPath] = NoFileId THEN <<>> ELSE inodes[names[EpubPath]]

\* C23 (as stated): for any interleaving of concurrent downloads to the same destination
\* path, each writer writes a temp file of its own, and after all of them
\* have returned the destination holds exactly the complete body written by
\* one of the successful writers, the one that renamed last; it never holds
\* a mixture or a partial file, and it is as before when no writer succeeded.
C23_Original ==
    /\ \A w \in Writing : writers[w].handle = w
    /\ \A w, v \in Writing : w # v => writers[w].handle # writers[v].handle
    /\ AllReturned =>
         IF Succeeded = {}
           THEN names[EpubPath] \in {NoFileId, OldFileId} /\ inodes[OldFileId] = OldData
           ELSE /\ renames # <<>>
                /\ renames[Len(renames)] \in Succeeded
                /\ names[EpubPath] = renames[Len(renames)]
                /\ DestData = BodyOf(renames[Len(renames)])
    /\ names[EpubPath] # NoFileId =>
         \/ names[EpubPath] = OldFileId /\ DestData = OldData
         \/ names[EpubPath] \in Writers /\ DestData = BodyOf(names[EpubPath])

----------------------------------------------------------------------------
(* Properties of the downloader: cleanup (SpecDownload) *)

\* C24: after a download call returns for any reason (success, any error,
\* or a body read that fails because the context was cancelled), no temp
\* file created by that call remains in the destination directory; the same
\* holds when the DownloadPDF fallback returns to DownloadEPUB.
C24_NoTempFileRemains ==
    dpc \in {"return", "done"} => \A t \in TmpNames : ~fs[t].exists /\ ~tmpOpen

\* a call that returned an error after its temp file held part of the body
C24_Witness ==
    /\ dpc = "done"
    /\ dres.kind = "read body"
    /\ rpos > 0
    /\ \A t \in TmpNames : ~fs0[t].exists

----------------------------------------------------------------------------
(* Properties of the login screen (SpecTui) *)

\* C25 (as stated): at most one login attempt is in flight at a time for one
\* authentication service instance: while an Authenticate call started from
\* the login screen has not returned, no second Authenticate call is
\* started, whatever keys the user presses.
C25_Original == inflight <= 1

----------------------------------------------------------------------------
(* Properties of concurrent callers of one Client (SpecRace) *)

Executing == {c \in Callers : callers[c].op = "Get"}

\* the next steps of a and b touch the same field, one of them writing it,
\* and nothing orders the two
Race(a, b) ==
    \E x \in Accesses(a), y \in Accesses(b) : x.field = y.field /\ (x.write \/ y.write)

\* C26 (as stated): no shared mutable state of a Client (default-header map,
\* retry policy fields, rate-limiter bucket, cookie jar) is written by one
\* caller while another can read or write it without a lock: concurrent
\* execute calls on one Client never race on these fields.
C26_Original ==
    \A a, b \in Executing : a # b => ~Race(a, b)

\* the page that carries token v in place f and nothing anywhere else
OnlyIn(f, v) == [g \in PageFields |-> IF g = f THEN v ELSE ""]

\* an extractor has returned
Extracted == fcall.fn \in {"getCSRFToken", "extractCSRFToken"} /\ fret # FPending

\* C27: the token extractor fails only if the page carries the token in
\* none of the places, a token it returns is never empty, and a page that
\* carries a token only in the response cookie, only in the hidden form
\* input, or only in the meta tag yields that token.
C27_Original ==
    Extracted =>
        /\ fret.err # "nil" => \A f \in PageFields : TrimSpace(fcall.input[f]) = ""
        /\ fret.err = "nil" => fret.token # ""
        /\ \A f \in {"cookie", "input", "meta"} : \A v \in {"tokA", "tokB"} :
               fcall.input = OnlyIn(f, v) => fret = FReturn(v, "nil")

\* the probe has been classified
Verified == fcall.fn = "verifyLogin" /\ fret # FPending

\* the probe got a response and read its body
ProbeRead == ~fcall.input.getErr /\ ~fcall.input.readErr

\* C28: the verification probe reports an expired subscription with its own
\* error, different from the not-signed-in and the failed-verification
\* errors, and it returns no error only when the response was read and
\* shows neither an expired account, nor a sign-in page, nor a status of
\* 400 or more.
C28_ProbeClassifies ==
    Verified =>
        /\ ErrExpired \notin {ErrNotSignedIn, ErrVerification, "nil"}
        /\ (ProbeRead /\ fcall.input.expired) <=> fret.err = ErrExpired
        /\ fret.err = "nil" =>
               /\ ProbeRead
               /\ ~fcall.input.expired
               /\ ~fcall.input.signin
               /\ fcall.input.status < 400

\* an expired account answered with a sign-in page and a status of 403 has
\* been reported as expired
C28_Witness ==
    /\ Verified
    /\ ProbeRead
    /\ fcall.input.expired
    /\ fcall.input.signin
    /\ fcall.input.status = 403
    /\ fret.err = ErrExpired

\* C29: after Logout returns without error no persisted session exists; a
\* session comes into existence only by a successful Authenticate or
\* import, and IsAuthenticated is false while there is none; Logout on a
\* service that is already logged out succeeds and changes nothing.
C29_Original ==
    /\ (ares.op = "Logout" /\ ares.ok) => tokenFile = NoFile
    /\ (ares.op # "none" /\ ares.before = NoFile /\ tokenFile # NoFile) => Issued
    /\ (ares.op = "IsAuthenticated" /\ ares.before = NoFile) => ~ares.ok
    /\ (ares.op = "Logout" /\ ares.before = NoFile /\ ~ares.fault) =>
           (ares.ok /\ tokenFile = NoFile)

\* C30: after every successful save of a session, from login or import,
\* the session file is readable and writable by its owner only, also when
\* a session file existed at that path before the save.
C30_Original == Issued => tokenMode = OwnerOnly

----------------------------------------------------------------------------
(* Further properties of progress reporting (SpecProgress) *)

\* C31: every progress emission of a download other than the one made with
\* the last bytes of the body comes more than 250 ms after the emission
\* before it (after the start of the copy loop for the first).
C31_Throttled ==
    \A i \in 1 .. Len(emitted) : ~emitted[i].atEOF => emitted[i].gap > Throttle

\* two emissions were made before the end of the body, and a third with it
C31_Witness ==
    /\ ReportedDownload
    /\ Len(emitted) = 3
    /\ ~emitted[1].atEOF
    /\ ~emitted[2].atEOF
    /\ emitted[2].gap > Throttle
    /\ emitted[3].atEOF

\* C38: within one download the percentages handed to the callback never
\* decrease, and each is greater than 0 and at most 100.
C38_PercentMonotone ==
    /\ \A i \in 1 .. Len(emitted) :
          /\ emitted[i].percent.num > 0
          /\ emitted[i].percent.num <= 100 * emitted[i].percent.den
    /\ \A i, j \in 1 .. Len(emitted) :
          i < j => emitted[i].percent.num * emitted[j].percent.den
                      <= emitted[j].percent.num * emitted[i].percent.den

\* a first emission below 100 percent was followed by one of 100 percent
C38_Witness ==
    /\ ReportedDownload
    /\ Len(emitted) >= 2
    /\ ~IsHundred(emitted[1].percent)
    /\ IsHundred(LastEmitted.percent)

----------------------------------------------------------------------------
(* Further properties of the download functions (SpecDownload) *)

\* the candidate of the last request and the type a response to it must declare
LastCandidate == dreq[Len(dreq)].cand
WantedType == IF LastCandidate = "epub" THEN EpubType ELSE PdfType

\* the last request was answered 200 with another content type
TypeMismatch ==
    /\ dreq # <<>>
    /\ dreq[Len(dreq)].status = 200
    /\ dresp.ctype # WantedType

\* the error of the call is the content-type error, or embeds it
IsTypeError(e) ==
    \/ e.kind = "unexpected content-type"
    \/ e.kind = "epub and pdf not found" /\ e.inner = "unexpected content-type"

\* C32: the declared content type is checked against the expected prefix
\* before a directory or a temp file is created: after an answer of another
\* type no file and no directory has been created or changed, and the call
\* returns the content-type error.
C32_TypeCheckedFirst ==
    TypeMismatch =>
        /\ fs = fs0
        /\ dirExists = dirExists0
        /\ tmp = <<>>
        /\ ~tmpOpen
        /\ dpc = "done" => IsTypeError(dres)

\* the fallback PDF request of an EPUB download was answered with HTML, in a
\* directory that does not exist
C32_Witness ==
    /\ dpc = "done"
    /\ TypeMismatch
    /\ entry = "epub"
    /\ LastCandidate = "pdf"
    /\ ~dirExists0
    /\ ~dirExists
    /\ dres.inner = "unexpected content-type"

\* C37: the error of a download matches os.ErrNotExist only if every
\* candidate that was requested answered 404; after a 404 of the EPUB and
\* another failure of the PDF fallback the error is not of the not-found kind.
C37_Original ==
    (dpc = "done" /\ dres.notExist) =>
        \A i \in 1 .. Len(dreq) : dreq[i].status = 404

----------------------------------------------------------------------------
(* Further properties of Login (SpecLogin) *)

\* the credential submission was answered with a status other than 200 and
\* its body was read
RejectedSubmission ==
    /\ lpc = "done"
    /\ postRead # <<>>
    /\ tres.err = NoErr
    /\ tres.resp # 200

\* C33: after an answer to the credential submission with a status other
\* than 200, Login returns the account-inactive error if the body mentions
\* "inactive", else the invalid-credentials error if it mentions "incorrect"
\* or "Invalid", else the unexpected-status error; it returns no token and
\* no finalization GET was sent.
C33_RejectionClassified ==
    RejectedSubmission =>
        /\ lres.token = ""
        /\ \A i \in 1 .. Len(sent) : sent[i] # "GET finalize"
        /\ lres.err = (IF "inactive" \in postRead[1].words
                         THEN "account is inactive"
                         ELSE IF postRead[1].words \cap {"incorrect", "Invalid"} # {}
                           THEN "invalid email or password"
                           ELSE "unexpected response status")

\* a rejection whose body mentions both "inactive" and "incorrect" was
\* reported as an inactive account
C33_Witness ==
    /\ RejectedSubmission
    /\ postRead[1].words = {"inactive", "incorrect"}
    /\ lres.err = "account is inactive"

----------------------------------------------------------------------------
(* Further properties of the screens (SpecTui) *)

\* C34: on the main search screen as on every other screen, once q or
\* ctrl+c has been pressed the application has quit.
C34_Original == lastKey \in QuitKeys => ui.quit

----------------------------------------------------------------------------
(* Further properties of the transport (SpecTransport) *)

\* C35: every return of the execute operation carries either a response or
\* an error, never both and never neither.
C35_Original ==
    tpc = "done" => ((tres.resp = NilResp) <=> (tres.err # NoErr))

----------------------------------------------------------------------------
(* Further properties of the session store (SpecSession) *)

\* C36: if Authenticate returns an error, the persisted state is what it was
\* before the call; in particular the token file is the one that was there
\* when the call began.
C36_Original ==
    (ares.op = "Authenticate" /\ ~ares.ok) => tokenFile = ares.before

\* the call is between two attempts: a next attempt will start
BetweenAttempts ==
    \/ tpc \in {"backoff", "sleep", "send"}
    \/ tpc = "loop" /\ outcomes # <<>> /\ MoreAttempts(policy, attempt)

\* C39: a response that the transport drops in order to retry has its body
\* closed before the next attempt starts, and at most one response body is
\* open when the execute operation returns.
C39_Original ==
    /\ BetweenAttempts => openBodies = 0
    /\ tpc = "done" => openBodies <= 1


====
